---- MODULE Spec2Model ----
(***************************************************************************)
(* Agent execution engine of the Multi-Agent repository:                   *)
(*   - Orchestrator: registerSubAgent, delegateTask and its task           *)
(*     bookkeeping, selectBestAgent, getStats (core/Orchestrator.ts); the  *)
(*     tasks created by createAgentSystem's execute (lib/agents/index.ts)  *)
(*     and by the Master's delegation tools                                *)
(*     (orchestrators/MasterOrchestrator.ts);                              *)
(*   - Agent.runAgentLoop / callLLM / executeToolCall / getStatus          *)
(*     (core/Agent.ts) as run by the execute method of a concrete          *)
(*     orchestrator, on one instance and on two independent ones;          *)
(*   - the Provider Registry (providers/index.ts) and the adapters'        *)
(*     initialize / isReady;                                               *)
(*   - the statistical tool (tools/analytics.ts), the handler of           *)
(*     POST /api/agents and getAgentSystem (app/api/agents/route.ts).      *)
(* An action is one run of the code between two suspension points (await). *)
(* Each specification runs the operations of one part; the variables of    *)
(* the other parts keep their initial values.                              *)
(***************************************************************************)
EXTENDS Integers, Sequences, FiniteSets, TLC

\* ------------------------------------------------------------------------
\* Bounds
\* ------------------------------------------------------------------------
MaxTasks == 3        \* tasks created in one behaviour (uuid supply)
MaxCallers == 2      \* overlapping callers of the orchestrator's operations
MaxIter == 2         \* largest maxIterations handed to runAgentLoop
MaxCalls == 2        \* most tool calls in one model response
MaxRuns == 2         \* execute calls that may be made on the instance
MaxRequests == 3     \* requests to /api/agents that may overlap

TaskIds == 1..MaxTasks
Callers == 1..MaxCallers
AgentIds == {"a1", "a2"}        \* ids a caller may pass to delegateTask
Registrable == {"a1"}           \* ids of the agents handed to registerSubAgent

\* ------------------------------------------------------------------------
\* State
\* ------------------------------------------------------------------------
VARIABLES
  subAgents,       \* Orchestrator.subAgents: the entries in insertion order
  pendingTasks,    \* Orchestrator.pendingTasks: keys (values are tasks[id])
  completedTasks,  \* Orchestrator.completedTasks: task id -> TaskResult
  tasks,           \* every Task object created so far: id -> Task
  nextTaskId,      \* ids handed out by uuidv4 / crypto.randomUUID
  dcall            \* per caller: position in delegateTask / execute wrappers

delegVars == <<subAgents, pendingTasks, completedTasks, tasks, nextTaskId, dcall>>

\* one orchestrator instance as an Agent, the Provider Registry singleton and
\* the frames of the execute calls made on the instance
VARIABLES
  status,          \* Agent.state.status
  currentTask,     \* Agent.state.currentTask
  lastActivity,    \* number of times Agent.state.lastActivity was stamped
  tools,           \* Agent.tools: registered tool names
  providerType,    \* Agent.providerType
  activeProvider,  \* ProviderFactory.activeProvider (module singleton)
  runners,         \* the execute calls the environment makes
  run              \* per execute call: locals of execute/runAgentLoop/callLLM

agentVars == <<status, currentTask, lastActivity, tools, providerType,
               activeProvider, runners, run>>

\* the Provider Registry singleton besides its active type
VARIABLES
  configs,         \* ProviderFactory.configs: the types a config is stored for
  regError,        \* what the last synchronous call of the registry threw
  got,             \* the adapter the last getActiveProvider() returned
  fcall,           \* the createChatCompletion call made on the registry
  initAll          \* the initializeAll call made on the registry

registryVars == <<configs, regError, got, fcall, initAll>>

\* the delegation tools of the orchestrator and the last selectBestAgent
VARIABLES
  delegationTools, \* the entries of Agent.tools set by registerSubAgent:
                   \* tool name -> the agent id its execute delegates to
  selected,        \* the last selectBestAgent call: description and result
  stats            \* what the last getStats() call returned

\* a second Agent instance and the object a status getter returned
VARIABLES
  other,           \* a second instance: its state, tools, provider type and
                   \* the frame of the execute call made on it
  snap             \* the value returned by getStatus() / getSystemStatus()

instVars == <<other, snap>>

\* a call of the statistical tool and a request to POST /api/agents
VARIABLES
  stat,            \* the last call of statisticalAnalysisTool.execute: its
                   \* parameters and the ToolResult it resolved to
  post             \* the POST /api/agents request being handled

\* the adapters of the Provider Registry and a call of one of its operations
\* that initialize an adapter; the agent system of the /api/agents route
VARIABLES
  adapters,        \* per adapter: its private config and zai fields
  apiKeys,         \* the types whose config in ProviderFactory.configs has
                   \* a non-empty apiKey
  lcall,           \* the initializeProvider / testProvider / listModels call
  sys              \* `agentSystem` of the route module, the instances that
                   \* createAgentSystem() made, and the requests in flight

lazyVars == <<adapters, apiKeys, lcall>>

toolVars == <<stat, post, lazyVars, sys>>

extraVars == <<delegationTools, selected, stats, instVars, toolVars>>

auxVars == <<registryVars, extraVars>>

vars == <<delegVars, agentVars, auxVars>>

NoTask == [status |-> "none", creator |-> "none", assignedTo |-> "none",
           result |-> [success |-> FALSE, error |-> "unset"], stamps |-> 0]
NoResult == [success |-> FALSE, error |-> "unset"]
IdleCall == [pc |-> "idle", op |-> "none", agentId |-> "none", taskId |-> 0,
             ret |-> NoResult, subThrew |-> FALSE, tool |-> << >>]

\* mutant: the task is created pending and never moved to in_progress
DelegateInitialStatus_m == "pending"

\* the status a task is created with by delegateTask
DelegateInitialStatus == "in_progress"

\* the status a task is created with by createAgentSystem.execute and by the
\* Master's delegate_to_* tools
WrapperInitialStatus == "pending"

\* task.status = result.success ? 'completed' : 'failed'
StatusOf(result) == IF result.success THEN "completed" ELSE "failed"

\* the TaskResult built in delegateTask's catch block
CaughtResult == [success |-> FALSE, error |-> "thrown"]

\* the TaskResult returned for an unknown sub-agent id
NotFoundResult == [success |-> FALSE, error |-> "not_found"]

\* what the sub-agent's execute may resolve to: a TaskResult
SubResults == {[success |-> TRUE, error |-> "none"],
               [success |-> FALSE, error |-> "execute_failed"]}

\* mutant: the map is replaced by one that holds the new task only
PendingSet_m(pending, id) == {id}

\* this.pendingTasks.set(task.id, task)
PendingSet(pending, id) == pending \cup {id}

\* mutant: the delete is forgotten
PendingDelete_m(pending, id) == pending

\* this.pendingTasks.delete(task.id)
PendingDelete(pending, id) == pending \ {id}

\* mutant: the map is replaced by one that holds the new result only
CompletedSet_m(completed, id, result) == [k \in {id} |-> result]

\* this.completedTasks.set(task.id, result)
CompletedSet(completed, id, result) ==
  [k \in (DOMAIN completed) \cup {id} |-> IF k = id THEN result ELSE completed[k]]

NoSelection == [description |-> << >>, result |-> "unset"]

NoStats == [totalTasks |-> -1, pendingTasks |-> -1, completedTasks |-> -1,
            failedTasks |-> -1]

InitDelegVars ==
  /\ subAgents = << >>
  /\ pendingTasks = {}
  /\ completedTasks = << >>
  /\ tasks = [t \in TaskIds |-> NoTask]
  /\ nextTaskId = 1
  /\ dcall = [c \in Callers |-> IdleCall]
  /\ delegationTools = << >>
  /\ selected = NoSelection
  /\ stats = NoStats

\* ------------------------------------------------------------------------
\* Orchestrator operations
\* ------------------------------------------------------------------------

\* strings that the code inspects character by character are sequences of
\* characters; the alphabet has letters of both cases and the blank
LowerChar(ch) == CASE ch = "A" -> "a" [] ch = "B" -> "b" [] OTHER -> ch

\* String.prototype.toLowerCase
ToLowerCase(str) == [i \in 1..Len(str) |-> LowerChar(str[i])]

\* String.prototype.includes
Includes(str, sub) ==
  \E k \in 0..(Len(str) - Len(sub)) : SubSeq(str, k + 1, k + Len(sub)) = sub

RECURSIVE SkipWhitespace(_)
SkipWhitespace(str) ==
  IF str # << >> /\ Head(str) = " " THEN SkipWhitespace(Tail(str)) ELSE str

\* String.prototype.replace(/\s+/g, '_')
RECURSIVE ReplaceWhitespaceRuns(_)
ReplaceWhitespaceRuns(str) ==
  IF str = << >> THEN << >>
  ELSE IF Head(str) = " "
       THEN <<"_">> \o ReplaceWhitespaceRuns(SkipWhitespace(Tail(str)))
       ELSE <<Head(str)>> \o ReplaceWhitespaceRuns(Tail(str))

\* `delegate_to_${agent.name.toLowerCase().replace(/\s+/g, '_')}`
DelegationToolName(name) ==
  <<"delegate_to_">> \o ReplaceWhitespaceRuns(ToLowerCase(name))

\* the names and capability lists handed to registerSubAgent, the
\* descriptions handed to selectBestAgent
AgentNames == { <<"A", " ", "b">>, <<"a", " ", " ", "B">>, <<"b">> }
CapabilityLists == { << <<"b", "b">> >>, << <<"A", "b">>, <<"a">> >>,
                     << <<"a">> >>, << >> }
Descriptions == { <<"a", "B", " ", "a">>, <<"B", "b">>, <<" ">> }
DefaultName == <<"b">>
DefaultCapabilities == << >>

\* the keys of this.subAgents
SubAgentIds == {subAgents[i].id : i \in DOMAIN subAgents}

\* Map.prototype.set on subAgents: a new key is appended, the value of an
\* existing key is replaced where it stands
SubAgentsSet(m, entry) ==
  IF \E i \in DOMAIN m : m[i].id = entry.id
  THEN [i \in DOMAIN m |-> IF m[i].id = entry.id THEN entry ELSE m[i]]
  ELSE Append(m, entry)

\* this.tools.set(name, tool) for a delegation tool: the tool's execute
\* closes over agent.id
DelegationToolsSet(m, name, id) ==
  [k \in (DOMAIN m) \cup {name} |-> IF k = name THEN id ELSE m[k]]

\* registerSubAgent(agent, capabilities): this.subAgents.set(agent.id, ...)
\* and this.registerTool({definition: {name: delegate_to_...}, execute})
RegisterSubAgent(agent, capabilities) ==
  /\ subAgents' = SubAgentsSet(subAgents, [id |-> agent.id, name |-> agent.name,
                                           capabilities |-> capabilities])
  /\ delegationTools' = DelegationToolsSet(delegationTools,
                                           DelegationToolName(agent.name), agent.id)
  /\ UNCHANGED <<pendingTasks, completedTasks, tasks, nextTaskId, dcall>>
  /\ UNCHANGED agentVars
  /\ UNCHANGED <<registryVars, selected, stats, instVars, toolVars>>

\* mutant: the lookup result is not checked
DelegateUnknownGuard_m(a) == FALSE

\* delegateTask, unknown agent id: early return, nothing is created
DelegateUnknownGuard(a) == a \notin SubAgentIds

\* delegateTask(agentId, ...) from its entry to the await of
\* subAgent.agent.execute(task); `tool` names the delegation tool whose
\* execute made the call, if one did
DelegateTaskCall(c, a, tool) ==
  /\ dcall[c].pc = "idle"
  /\ IF DelegateUnknownGuard(a)
     THEN /\ dcall' = [dcall EXCEPT ![c] = [IdleCall EXCEPT
                         !.pc = "returned", !.op = "delegate", !.agentId = a,
                         !.ret = NotFoundResult, !.tool = tool]]
          /\ UNCHANGED <<subAgents, pendingTasks, completedTasks, tasks, nextTaskId>>
     ELSE /\ nextTaskId <= MaxTasks
          /\ tasks' = [tasks EXCEPT ![nextTaskId] =
                         [status |-> DelegateInitialStatus, creator |-> "delegate",
                          assignedTo |-> a, result |-> NoResult, stamps |-> 0]]
          /\ pendingTasks' = PendingSet(pendingTasks, nextTaskId)
          /\ nextTaskId' = nextTaskId + 1
          /\ dcall' = [dcall EXCEPT ![c] = [IdleCall EXCEPT
                         !.pc = "awaitExecute", !.op = "delegate", !.agentId = a,
                         !.taskId = nextTaskId, !.tool = tool]]
          /\ UNCHANGED <<subAgents, completedTasks>>
  /\ UNCHANGED agentVars
  /\ UNCHANGED auxVars

\* delegateTask called directly
DelegateTask(c, a) == DelegateTaskCall(c, a, << >>)

\* the execute of the tool registered by registerSubAgent under `name`:
\* return this.delegateTask(agent.id, params.task_description, params.context)
ExecuteDelegationTool(c, name) ==
  /\ name \in DOMAIN delegationTools
  /\ DelegateTaskCall(c, delegationTools[name], name)

\* mutant: the scan keeps the last sub-agent that matches
RECURSIVE FirstMatch_m(_, _, _)
FirstMatch_m(m, task, i) ==
  IF i > Len(m) THEN "no_match"
  ELSE LET rest == FirstMatch_m(m, task, i + 1)
       IN IF rest # "no_match" THEN rest
          ELSE IF \E j \in DOMAIN m[i].capabilities :
                    Includes(task, ToLowerCase(m[i].capabilities[j]))
               THEN m[i].id
               ELSE "no_match"

\* selectBestAgent: the nested for loops over the sub-agents and their
\* capabilities, from sub-agent i on; the id of the first match
RECURSIVE FirstMatch(_, _, _)
FirstMatch(m, task, i) ==
  IF i > Len(m) THEN "no_match"
  ELSE IF \E j \in DOMAIN m[i].capabilities :
            Includes(task, ToLowerCase(m[i].capabilities[j]))
       THEN m[i].id
       ELSE FirstMatch(m, task, i + 1)

\* selectBestAgent: return firstAgent?.id || null
FirstOrNull(m) == IF m = << >> \/ m[1].id = "" THEN "null" ELSE m[1].id

\* selectBestAgent(taskDescription)
SelectBestAgent(m, description) ==
  LET found == FirstMatch(m, ToLowerCase(description), 1)
  IN IF found # "no_match" THEN found ELSE FirstOrNull(m)

\* a call of selectBestAgent(description); its result is kept
SelectBestAgentCall(description) ==
  /\ selected' = [description |-> description,
                  result |-> SelectBestAgent(subAgents, description)]
  /\ UNCHANGED <<delegVars, agentVars, registryVars, delegationTools, stats, instVars,
                 toolVars>>

\* the bookkeeping shared by the try and the catch branch of delegateTask:
\* status, result, updatedAt, pendingTasks.delete, completedTasks.set, return
FinishDelegation(c, result, threw) ==
  LET id == dcall[c].taskId IN
  /\ tasks' = [tasks EXCEPT ![id].status = StatusOf(result),
                            ![id].result = result,
                            ![id].stamps = @ + 1]
  /\ pendingTasks' = PendingDelete(pendingTasks, id)
  /\ completedTasks' = CompletedSet(completedTasks, id, result)
  /\ dcall' = [dcall EXCEPT ![c].pc = "returned", ![c].ret = result,
                            ![c].subThrew = threw]
  /\ UNCHANGED <<subAgents, nextTaskId>>
  /\ UNCHANGED agentVars
  /\ UNCHANGED auxVars

\* the awaited subAgent.agent.execute(task) resolves with a TaskResult
SubAgentReturns(c, result) ==
  /\ dcall[c].pc = "awaitExecute"
  /\ dcall[c].op = "delegate"
  /\ FinishDelegation(c, result, FALSE)

\* mutant: no try/catch around the await, the rejection propagates
SubAgentThrows_m(c) ==
  /\ dcall[c].pc = "awaitExecute"
  /\ dcall[c].op = "delegate"
  /\ dcall' = [dcall EXCEPT ![c].pc = "thrown", ![c].subThrew = TRUE]
  /\ UNCHANGED <<subAgents, pendingTasks, completedTasks, tasks, nextTaskId>>
  /\ UNCHANGED agentVars
  /\ UNCHANGED auxVars

\* the awaited subAgent.agent.execute(task) rejects: the catch block
SubAgentThrows(c) ==
  /\ dcall[c].pc = "awaitExecute"
  /\ dcall[c].op = "delegate"
  /\ FinishDelegation(c, CaughtResult, TRUE)

\* createAgentSystem().execute(description, context) and the execute of a
\* delegate_to_* tool of the Master: wrap the description into a Task and
\* await the execute of a concrete orchestrator
WrapperExecute(c, op) ==
  /\ dcall[c].pc = "idle"
  /\ nextTaskId <= MaxTasks
  /\ tasks' = [tasks EXCEPT ![nextTaskId] =
                 [status |-> WrapperInitialStatus, creator |-> op,
                  assignedTo |-> "none", result |-> NoResult, stamps |-> 0]]
  /\ nextTaskId' = nextTaskId + 1
  /\ dcall' = [dcall EXCEPT ![c] = [IdleCall EXCEPT
                 !.pc = "awaitExecute", !.op = op, !.taskId = nextTaskId]]
  /\ UNCHANGED <<subAgents, pendingTasks, completedTasks>>
  /\ UNCHANGED agentVars
  /\ UNCHANGED auxVars

\* the concrete orchestrator's execute resolves (it never rejects: every
\* concrete execute has a catch-all); the wrapper returns the result as is
WrapperReturns(c, result) ==
  /\ dcall[c].pc = "awaitExecute"
  /\ dcall[c].op \in {"system", "masterTool"}
  /\ dcall' = [dcall EXCEPT ![c].pc = "returned", ![c].ret = result]
  /\ UNCHANGED <<subAgents, pendingTasks, completedTasks, tasks, nextTaskId>>
  /\ UNCHANGED agentVars
  /\ UNCHANGED auxVars

\* the caller has consumed the returned TaskResult and may call again
CallerContinues(c) ==
  /\ dcall[c].pc = "returned"
  /\ dcall' = [dcall EXCEPT ![c] = IdleCall]
  /\ UNCHANGED <<subAgents, pendingTasks, completedTasks, tasks, nextTaskId>>
  /\ UNCHANGED agentVars
  /\ UNCHANGED auxVars

\* mutant: completedTasks is the size of the completed map
GetStats_m(pending, completed) ==
  [totalTasks |-> Cardinality(pending) + Cardinality(DOMAIN completed),
   pendingTasks |-> Cardinality(pending),
   completedTasks |-> Cardinality(DOMAIN completed),
   failedTasks |-> Cardinality({k \in DOMAIN completed : ~completed[k].success})]

\* getStats(): sizes of the maps and the success / failure counts of the
\* results in completedTasks
GetStats(pending, completed) ==
  [totalTasks |-> Cardinality(pending) + Cardinality(DOMAIN completed),
   pendingTasks |-> Cardinality(pending),
   completedTasks |-> Cardinality({k \in DOMAIN completed : completed[k].success}),
   failedTasks |-> Cardinality({k \in DOMAIN completed : ~completed[k].success})]

\* a call of getStats(); what it returned is kept
GetStatsCall ==
  /\ stats' = GetStats(pendingTasks, completedTasks)
  /\ UNCHANGED <<delegVars, agentVars, registryVars, delegationTools, selected, instVars,
                 toolVars>>

\* ------------------------------------------------------------------------
\* Agent: state of one concrete orchestrator instance and of the Provider
\* Registry, and the frames of the execute calls made on the instance
\* ------------------------------------------------------------------------
Runs == 1..MaxRuns
ProviderTypes == {"openai", "ollama"}
DefaultProvider == "openai"
ClassTools == {"t1"}             \* names the agent may register
RequestNames == {"t1", "zz"}     \* names a model response may ask for
MasterTools == {"delegate_to_analytics"}  \* an explicit delegation tool
FinishReasons == {"stop", "tool_calls", "length"}
Sentinel == "Maximum iterations reached"

NoResponse == [finishReason |-> "none", toolCalls |-> << >>]
NoTaskResult == [success |-> FALSE, output |-> "unset", error |-> "unset"]
IdleRun == [pc |-> "idle", maxIterations |-> 0, iterations |-> 0,
            messages |-> << >>, allMessages |-> << >>, response |-> NoResponse,
            tcIndex |-> 0, toolResults |-> << >>, modelCalls |-> 0,
            attempts |-> << >>, responses |-> 0, toolTurns |-> 0,
            activityAtStart |-> 0,
            loopResult |-> "none", error |-> "none", result |-> NoTaskResult]

\* (activityAtStart: the value of lastActivity when the run began)

\* an LLMMessage / AgentMessage: role, toolCallId (0: none) and the ids of
\* the tool calls an assistant message carries; the content is text that the
\* loop never reads back, the ToolResult it serializes is kept in toolResults
Msg(role, id, calls) == [role |-> role, toolCallId |-> id, toolCalls |-> calls]

\* the two messages every concrete execute seeds the loop with
InitialMessages == << Msg("system", 0, << >>), Msg("user", 0, << >>) >>

\* the tool-call lists and the responses a backend may answer with; ids are
\* unique per call: the id of call i of turn n
CallId(n, i) == (n - 1) * MaxCalls + i
CallSeqsOver(names) ==
  UNION {[1..k -> [name : names, argsOk : BOOLEAN]] : k \in 0..MaxCalls}
CallSeqs == CallSeqsOver(RequestNames)
Responses == [finishReason : FinishReasons, toolCalls : CallSeqs]

\* callLLM: if (this.providerType !== 'openai') use the provider factory
UsesRegistry(pt) == pt # DefaultProvider

\* callLLM: role: m.role === 'tool' ? 'user' : m.role
WireRole(role) == IF role = "tool" THEN "user" ELSE role

\* the request callLLM builds: where it goes and what it carries
Request(via, adapter, msgs, registry) ==
  [via |-> via, adapter |-> adapter,
   messages |-> [i \in 1..Len(msgs) |->
                   [role |-> WireRole(msgs[i].role), toolCallId |-> msgs[i].toolCallId]],
   tools |-> registry]

\* parseToolCalls: JSON.parse of every call's arguments; it throws on the
\* first argument string that is not JSON
ParseOk(calls) == \A i \in 1..Len(calls) : calls[i].argsOk

\* runAgentLoop: if (response.finishReason === 'stop' || !response.toolCalls?.length)
LoopDone(resp) == resp.finishReason = "stop" \/ Len(resp.toolCalls) = 0

\* what may happen when a tool's execute is awaited: a built-in tool
\* returns a success or a failure or throws, a delegation tool returns the
\* TaskResult of the sub-orchestrator's execute
ToolOutcomes == {"ok", "fail", "throw"}
DelegationOutcomes == {"taskOk", "taskFail"}
OutcomesFor(registry, name) ==
  IF name \notin registry THEN {"absent"}
  ELSE IF name \in MasterTools THEN DelegationOutcomes
  ELSE ToolOutcomes

\* a ToolResult: success, data ("none": absent) and error ("none": absent)
ToolResult(success, data, error) ==
  [success |-> success, data |-> data, error |-> error]

\* a TaskResult {success, output?, error?, executionTime?} returned where a
\* ToolResult is expected: it has no data field
TaskResultAsToolResult(tr) == ToolResult(tr.success, "none", tr.error)

\* the TaskResults a concrete orchestrator's execute returns
TaskSucceeded == [success |-> TRUE, output |-> "content", error |-> "none"]
TaskFailed == [success |-> FALSE, output |-> "none", error |-> "execute_failed"]

\* mutant: the catch block reports the thrown value as data
CaughtToolResult_m == ToolResult(FALSE, "present", "none")

\* executeToolCall, catch block: {success: false, error: message}
CaughtToolResult == ToolResult(FALSE, "none", "thrown")

\* what the execute of a registered tool resolves to
ToolReturns(outcome) ==
  CASE outcome = "ok" -> ToolResult(TRUE, "present", "none")
    [] outcome = "fail" -> ToolResult(FALSE, "none", "tool_error")
    [] outcome = "taskOk" -> TaskResultAsToolResult(TaskSucceeded)
    [] outcome = "taskFail" -> TaskResultAsToolResult(TaskFailed)

\* mutant: the lookup result is not checked; calling execute of undefined
\* throws inside the try block and is reported as a thrown tool error
ExecuteToolCall_m(registry, name, outcome) ==
  IF name \in registry /\ outcome # "throw"
  THEN ToolReturns(outcome)
  ELSE CaughtToolResult

\* executeToolCall: the ToolResult for a call of `name`
ExecuteToolCall(registry, name, outcome) ==
  IF name \notin registry
  THEN ToolResult(FALSE, "none", "unknown_tool")
  ELSE IF outcome = "throw" THEN CaughtToolResult
       ELSE ToolReturns(outcome)

InitAgentVars ==
  /\ status = "idle"
  /\ currentTask = 0
  /\ lastActivity = 0
  /\ tools = {}
  /\ providerType = DefaultProvider
  /\ activeProvider = DefaultProvider
  /\ runners = {1}
  /\ run = [c \in Runs |-> IdleRun]

\* registerTool(tool): this.tools.set(tool.definition.name, tool)
RegisterTool(n) ==
  /\ \A c \in Runs : run[c].pc = "idle"
  /\ n \notin tools
  /\ tools' = tools \cup {n}
  /\ UNCHANGED <<status, currentTask, lastActivity, providerType, activeProvider,
                 runners, run>>
  /\ UNCHANGED delegVars
  /\ UNCHANGED auxVars

\* setProvider(type, config)
SetProvider(t) ==
  /\ \A c \in Runs : run[c].pc = "idle"
  /\ t # providerType
  /\ providerType' = t
  /\ UNCHANGED <<status, currentTask, lastActivity, tools, activeProvider,
                 runners, run>>
  /\ UNCHANGED delegVars
  /\ UNCHANGED auxVars

\* mutant: the loop goes round once more
LoopContinues_m(f) == f.iterations <= f.maxIterations

\* runAgentLoop: while (iterations < maxIterations)
LoopContinues(f) == f.iterations < f.maxIterations

\* mutant: running out of iterations is raised as an error
TurnFor_m(f, pt, registry) ==
  IF LoopContinues(f)
  THEN [f EXCEPT !.iterations = @ + 1,
                 !.modelCalls = @ + 1,
                 !.response = NoResponse,
                 !.tcIndex = 0,
                 !.attempts = << IF UsesRegistry(pt)
                                 THEN Request("registry", activeProvider, f.messages, registry)
                                 ELSE Request("sdk", DefaultProvider, f.messages, registry) >>,
                 !.pc = IF UsesRegistry(pt) THEN "provider" ELSE "default"]
  ELSE [f EXCEPT !.pc = "loopThrown", !.error = "max_iterations",
                 !.response = NoResponse, !.tcIndex = 0]

\* the head of the while loop of runAgentLoop up to the first await of
\* callLLM, for an instance with provider type pt and tool registry
\* `registry`: one more turn, or the exit on iteration exhaustion
TurnFor(f, pt, registry) ==
  IF LoopContinues(f)
  THEN [f EXCEPT !.iterations = @ + 1,
                 !.modelCalls = @ + 1,
                 !.response = NoResponse,
                 !.tcIndex = 0,
                 !.attempts = << IF UsesRegistry(pt)
                                 THEN Request("registry", activeProvider, f.messages, registry)
                                 ELSE Request("sdk", DefaultProvider, f.messages, registry) >>,
                 !.pc = IF UsesRegistry(pt) THEN "provider" ELSE "default"]
  ELSE [f EXCEPT !.pc = "loopReturned", !.loopResult = Sentinel,
                 !.response = NoResponse, !.tcIndex = 0]

\* the same for the orchestrator instance of the agent variables
NextTurn(f) == TurnFor(f, providerType, tools)

\* mutant: the loop does not announce that it executes tools
StatusAt_m(f, old) ==
  CASE f.pc \in {"provider", "default"} -> "thinking"
    [] f.pc = "loopReturned" -> "idle"
    [] OTHER -> old

\* the status runAgentLoop leaves when it reaches the frame f
StatusAt(f, old) ==
  CASE f.pc \in {"provider", "default"} -> "thinking"
    [] f.pc = "tool" -> "executing"
    [] f.pc = "loopReturned" -> "idle"
    [] OTHER -> old

\* execute(task) of a concrete orchestrator from its entry to the first
\* await: status, currentTask, the message list, runAgentLoop(messages, n)
ExecuteStart(c, n) ==
  /\ c \in runners
  /\ run[c].pc = "idle"
  /\ LET f == NextTurn([IdleRun EXCEPT !.maxIterations = n,
                                       !.messages = InitialMessages,
                                       !.activityAtStart = lastActivity])
     IN /\ run' = [run EXCEPT ![c] = f]
        /\ status' = StatusAt(f, "thinking")
  /\ currentTask' = c
  /\ UNCHANGED <<lastActivity, tools, providerType, activeProvider, runners>>
  /\ UNCHANGED delegVars
  /\ UNCHANGED auxVars

\* the environment makes one more execute call on the instance
AnotherCaller ==
  /\ runners # Runs
  /\ runners' = Runs
  /\ UNCHANGED <<status, currentTask, lastActivity, tools, providerType,
                 activeProvider, run>>
  /\ UNCHANGED delegVars
  /\ UNCHANGED auxVars

\* an execute call made by a caller that waits for the previous call on the
\* instance to return (single-writer use)
SerialExecuteStart(c, n) ==
  /\ \A d \in Runs : run[d].pc \in {"idle", "done"}
  /\ ExecuteStart(c, n)

\* mutant: execute waits until no other call on the instance is in flight
ConcurrentExecuteStart_m(c, n) == SerialExecuteStart(c, n)

\* an execute call made by a request handler on a shared instance: nothing
\* in execute looks at a call that is already in flight
ConcurrentExecuteStart(c, n) == ExecuteStart(c, n)

\* mutant: the cap is looked at before the tools of the last turn are run
AfterResponse_m(f, resp) ==
  LET g == [f EXCEPT !.responses = @ + 1,
                     !.toolTurns = IF LoopDone(resp) THEN @ ELSE @ + 1,
                     !.toolResults = << >>]
      ids == [i \in 1..Len(resp.toolCalls) |-> CallId(f.iterations, i)]
  IN IF ~ParseOk(resp.toolCalls)
     THEN [g EXCEPT !.pc = "loopThrown", !.error = "parse"]
     ELSE IF LoopDone(resp)
     THEN [g EXCEPT !.allMessages = Append(@, Msg("assistant", 0, ids)),
                    !.pc = "loopReturned", !.loopResult = "content"]
     ELSE IF ~LoopContinues(f)
     THEN [g EXCEPT !.allMessages = Append(@, Msg("assistant", 0, ids)),
                    !.pc = "loopReturned", !.loopResult = Sentinel]
     ELSE [g EXCEPT !.allMessages = Append(@, Msg("assistant", 0, ids)),
                    !.response = resp, !.tcIndex = 1, !.pc = "tool"]

\* runAgentLoop after callLLM has returned `resp`: parse the tool calls,
\* record the assistant message, stop or start the first tool call
AfterResponse(f, resp) ==
  LET g == [f EXCEPT !.responses = @ + 1,
                     !.toolTurns = IF LoopDone(resp) THEN @ ELSE @ + 1,
                     !.toolResults = << >>]
      ids == [i \in 1..Len(resp.toolCalls) |-> CallId(f.iterations, i)]
  IN IF ~ParseOk(resp.toolCalls)
     THEN [g EXCEPT !.pc = "loopThrown", !.error = "parse"]
     ELSE IF LoopDone(resp)
     THEN [g EXCEPT !.allMessages = Append(@, Msg("assistant", 0, ids)),
                    !.pc = "loopReturned", !.loopResult = "content"]
     ELSE [g EXCEPT !.allMessages = Append(@, Msg("assistant", 0, ids)),
                    !.response = resp, !.tcIndex = 1, !.pc = "tool"]

\* the awaited providerFactory.createChatCompletion(request) resolves
ProviderResponds(c, resp) ==
  /\ run[c].pc = "provider"
  /\ LET f == AfterResponse(run[c], resp)
     IN /\ run' = [run EXCEPT ![c] = f]
        /\ status' = StatusAt(f, status)
  /\ UNCHANGED <<currentTask, lastActivity, tools, providerType, activeProvider, runners>>
  /\ UNCHANGED delegVars
  /\ UNCHANGED auxVars

\* mutant: no try/catch around the provider call, its error propagates
ProviderFails_m(c) ==
  /\ run[c].pc = "provider"
  /\ run' = [run EXCEPT ![c].pc = "loopThrown", ![c].error = "backend"]
  /\ UNCHANGED <<status, currentTask, lastActivity, tools, providerType,
                 activeProvider, runners>>
  /\ UNCHANGED delegVars
  /\ UNCHANGED auxVars

\* the awaited provider call rejects: the catch block of callLLM logs and
\* falls through to the default backend (ZAI.create if needed, then
\* zai.chat.completions.create)
ProviderFails(c) ==
  /\ run[c].pc = "provider"
  /\ run' = [run EXCEPT ![c].pc = "default",
                        ![c].attempts = Append(@, Request("sdk", DefaultProvider,
                                                          run[c].messages, tools))]
  /\ UNCHANGED <<status, currentTask, lastActivity, tools, providerType,
                 activeProvider, runners>>
  /\ UNCHANGED delegVars
  /\ UNCHANGED auxVars

\* the awaited call of the default backend resolves
DefaultResponds(c, resp) ==
  /\ run[c].pc = "default"
  /\ LET f == AfterResponse(run[c], resp)
     IN /\ run' = [run EXCEPT ![c] = f]
        /\ status' = StatusAt(f, status)
  /\ UNCHANGED <<currentTask, lastActivity, tools, providerType, activeProvider, runners>>
  /\ UNCHANGED delegVars
  /\ UNCHANGED auxVars

\* the awaited call of the default backend rejects: nothing catches it in
\* callLLM or runAgentLoop
DefaultFails(c) ==
  /\ run[c].pc = "default"
  /\ run' = [run EXCEPT ![c].pc = "loopThrown", ![c].error = "backend"]
  /\ UNCHANGED <<status, currentTask, lastActivity, tools, providerType,
                 activeProvider, runners>>
  /\ UNCHANGED delegVars
  /\ UNCHANGED auxVars

\* mutant: the results are pushed last one first
ToolResultMessages_m(toolResults) ==
  [j \in 1..Len(toolResults) |->
     Msg("tool", toolResults[Len(toolResults) + 1 - j].toolCallId, << >>)]

\* messages.push(...toolResults): the LLM messages {role: 'tool',
\* toolCallId: tc.id, content} in the order they were pushed to toolResults
ToolResultMessages(toolResults) ==
  [j \in 1..Len(toolResults) |-> Msg("tool", toolResults[j].toolCallId, << >>)]

\* mutant: executeToolCall without its try/catch, the error thrown by the
\* tool leaves the loop
AfterToolCall_m(f, outcome, pt, registry) ==
  LET calls == f.response.toolCalls
      i == f.tcIndex
      id == CallId(f.iterations, i)
      ids == [j \in 1..Len(calls) |-> CallId(f.iterations, j)]
      res == ExecuteToolCall(registry, calls[i].name, outcome)
      g == [f EXCEPT
              !.allMessages = Append(@, Msg("tool", 0, << >>)),
              !.toolResults = Append(@, [toolCallId |-> id, result |-> res,
                                         threw |-> outcome = "throw"]),
              !.messages = Append(@, Msg("assistant", 0, ids))]
  IN IF outcome = "throw"
     THEN [f EXCEPT !.pc = "loopThrown", !.error = "tool"]
     ELSE IF i < Len(calls)
     THEN [g EXCEPT !.tcIndex = i + 1]
     ELSE TurnFor([g EXCEPT !.messages = @ \o ToolResultMessages(g.toolResults)],
                  pt, registry)

\* one pass of the for loop over response.toolCalls of the frame f, on an
\* instance with provider type pt and tool registry `registry`: the awaited
\* executeToolCall resolves, the messages are pushed; after the last call
\* the tool results are appended and the while loop goes round. An entry of
\* toolResults also tells whether the tool's execute threw.
AfterToolCall(f, outcome, pt, registry) ==
  LET calls == f.response.toolCalls
      i == f.tcIndex
      id == CallId(f.iterations, i)
      ids == [j \in 1..Len(calls) |-> CallId(f.iterations, j)]
      res == ExecuteToolCall(registry, calls[i].name, outcome)
      g == [f EXCEPT
              !.allMessages = Append(@, Msg("tool", 0, << >>)),
              !.toolResults = Append(@, [toolCallId |-> id, result |-> res,
                                         threw |-> outcome = "throw"]),
              !.messages = Append(@, Msg("assistant", 0, ids))]
  IN IF i < Len(calls)
     THEN [g EXCEPT !.tcIndex = i + 1]
     ELSE TurnFor([g EXCEPT !.messages = @ \o ToolResultMessages(g.toolResults)],
                  pt, registry)

\* the awaited executeToolCall of the call at tcIndex of run c resolves
ToolCallDone(c, outcome) ==
  /\ run[c].pc = "tool"
  /\ outcome \in OutcomesFor(tools, run[c].response.toolCalls[run[c].tcIndex].name)
  /\ LET h == AfterToolCall(run[c], outcome, providerType, tools)
     IN /\ run' = [run EXCEPT ![c] = h]
        /\ status' = StatusAt(h, status)
  /\ UNCHANGED <<currentTask, lastActivity, tools, providerType, activeProvider, runners>>
  /\ UNCHANGED delegVars
  /\ UNCHANGED auxVars

\* mutant: the catch block leaves the status as it is
CatchStatus_m(old) == old

\* execute, catch block: this.state.status = 'error'
CatchStatus(old) == "error"

\* mutant: execute without its catch block, the error reaches the caller
ExecuteFinish_m(c) ==
  /\ run[c].pc \in {"loopReturned", "loopThrown"}
  /\ IF run[c].pc = "loopReturned"
     THEN /\ status' = "idle"
          /\ lastActivity' = lastActivity + 1
          /\ run' = [run EXCEPT ![c].pc = "done",
                       ![c].result = [success |-> TRUE, output |-> run[c].loopResult,
                                      error |-> "none"]]
     ELSE /\ status' = status
          /\ lastActivity' = lastActivity
          /\ run' = [run EXCEPT ![c].pc = "executeThrown"]
  /\ UNCHANGED <<currentTask, tools, providerType, activeProvider, runners>>
  /\ UNCHANGED delegVars
  /\ UNCHANGED auxVars

\* execute after the awaited runAgentLoop: the rest of the try block when it
\* returned, the catch block when it threw
ExecuteFinish(c) ==
  /\ run[c].pc \in {"loopReturned", "loopThrown"}
  /\ IF run[c].pc = "loopReturned"
     THEN /\ status' = "idle"
          /\ lastActivity' = lastActivity + 1
          /\ run' = [run EXCEPT ![c].pc = "done",
                       ![c].result = [success |-> TRUE, output |-> run[c].loopResult,
                                      error |-> "none"]]
     ELSE /\ status' = CatchStatus(status)
          /\ lastActivity' = lastActivity
          /\ run' = [run EXCEPT ![c].pc = "done",
                       ![c].result = [success |-> FALSE, output |-> "none",
                                      error |-> run[c].error]]
  /\ UNCHANGED <<currentTask, tools, providerType, activeProvider, runners>>
  /\ UNCHANGED delegVars
  /\ UNCHANGED auxVars

\* ------------------------------------------------------------------------
\* Provider Registry (ProviderFactory, module singleton providerFactory)
\* ------------------------------------------------------------------------

\* the types a caller may hand to the registry: the registered ones and one
\* that the constructor did not register
RequestedTypes == ProviderTypes \cup {"bogus"}

\* this.providers as built by the constructor: one adapter per type, the
\* adapter is named by its type
providers == [t \in ProviderTypes |-> t]

IdleFactoryCall == [pc |-> "idle", adapter |-> "none"]
IdleInitAll == [pc |-> "idle", entries |-> << >>, index |-> 0,
                calls |-> << >>, outcomes |-> << >>]

\* Object.entries(configs) of a Record<ProviderType, ProviderConfig>: one
\* entry per key, in insertion order
Distinct(e) == \A i, j \in 1..Len(e) : e[i].type = e[j].type => i = j
ConfigEntries ==
  {e \in UNION {[1..k -> [type : RequestedTypes, enabled : BOOLEAN]] :
                  k \in 0..Cardinality(RequestedTypes)} : Distinct(e)}

InitRegistryVars ==
  /\ configs = {}
  /\ regError = "none"
  /\ got = "none"
  /\ fcall = IdleFactoryCall
  /\ initAll = IdleInitAll

\* mutant: the type is stored without the has() check
SetActiveProviderGuard_m(t) == TRUE

\* setActiveProvider: if (!this.providers.has(type)) throw
SetActiveProviderGuard(t) == t \in DOMAIN providers

\* ProviderFactory.setActiveProvider(type), e.g. by the settings route
SetActiveProvider(t) ==
  /\ t # activeProvider
  /\ IF SetActiveProviderGuard(t)
     THEN /\ activeProvider' = t
          /\ regError' = "none"
     ELSE /\ activeProvider' = activeProvider
          /\ regError' = "unknown_provider_type"
  /\ UNCHANGED <<status, currentTask, lastActivity, tools, providerType,
                 runners, run>>
  /\ UNCHANGED delegVars
  /\ UNCHANGED <<configs, got, fcall, initAll, extraVars>>

\* getActiveProvider(): the adapter stored under the active type, or throw
GetActiveProvider ==
  /\ IF activeProvider \in DOMAIN providers
     THEN /\ got' = providers[activeProvider]
          /\ regError' = "none"
     ELSE /\ got' = "none"
          /\ regError' = "active_provider_not_found"
  /\ UNCHANGED <<configs, fcall, initAll>>
  /\ UNCHANGED <<delegVars, agentVars, extraVars>>

\* createChatCompletion: const provider = this.getActiveProvider()
RoutedAdapter(active) == providers[active]

\* ProviderFactory.createChatCompletion(request) up to the await of the
\* adapter's createChatCompletion
FactoryCreateChatCompletion ==
  /\ fcall.pc = "idle"
  /\ IF activeProvider \in DOMAIN providers
     THEN /\ fcall' = [pc |-> "awaitAdapter", adapter |-> RoutedAdapter(activeProvider)]
          /\ regError' = "none"
     ELSE /\ fcall' = fcall
          /\ regError' = "active_provider_not_found"
  /\ UNCHANGED <<configs, got, initAll>>
  /\ UNCHANGED <<delegVars, agentVars, extraVars>>

\* the adapter's createChatCompletion resolves or rejects; the registry
\* hands either on to its caller
AdapterSettles ==
  /\ fcall.pc = "awaitAdapter"
  /\ fcall' = IdleFactoryCall
  /\ UNCHANGED <<configs, regError, got, initAll>>
  /\ UNCHANGED <<delegVars, agentVars, extraVars>>

\* initializeAll: the for loop from entry i on, up to the next await of
\* provider.initialize(config) or to the end of the entries
InitAllAdvance(f, i) ==
  LET next == {j \in i..Len(f.entries) :
                 f.entries[j].type \in DOMAIN providers /\ f.entries[j].enabled}
  IN IF next = {}
     THEN [f EXCEPT !.pc = "returned", !.index = Len(f.entries) + 1]
     ELSE LET j == CHOOSE k \in next : \A m \in next : k <= m
          IN [f EXCEPT !.pc = "awaitInitialize", !.index = j,
                       !.calls = Append(@, f.entries[j].type)]

\* initializeAll(configs) from its entry to the first await
InitializeAllStart(entries) ==
  /\ initAll.pc = "idle"
  /\ initAll' = InitAllAdvance([IdleInitAll EXCEPT !.entries = entries], 1)
  /\ UNCHANGED <<configs, regError, got, fcall>>
  /\ UNCHANGED <<delegVars, agentVars, extraVars>>

\* the awaited provider.initialize(config) resolves: the config is stored
InitializeResolves ==
  /\ initAll.pc = "awaitInitialize"
  /\ configs' = configs \cup {initAll.entries[initAll.index].type}
  /\ initAll' = InitAllAdvance([initAll EXCEPT !.outcomes = Append(@, "ok")],
                               initAll.index + 1)
  /\ UNCHANGED <<regError, got, fcall>>
  /\ UNCHANGED <<delegVars, agentVars, extraVars>>

\* mutant: no try/catch in the loop, the rejection ends initializeAll
InitializeRejects_m ==
  /\ initAll.pc = "awaitInitialize"
  /\ initAll' = [initAll EXCEPT !.pc = "thrown", !.outcomes = Append(@, "error")]
  /\ UNCHANGED <<configs, regError, got, fcall>>
  /\ UNCHANGED <<delegVars, agentVars, extraVars>>

\* the awaited provider.initialize(config) rejects: the catch block logs
\* and the loop goes on
InitializeRejects ==
  /\ initAll.pc = "awaitInitialize"
  /\ initAll' = InitAllAdvance([initAll EXCEPT !.outcomes = Append(@, "error")],
                               initAll.index + 1)
  /\ UNCHANGED <<configs, regError, got, fcall>>
  /\ UNCHANGED <<delegVars, agentVars, extraVars>>

\* the caller of initializeAll has been resumed
InitializeAllReturns ==
  /\ initAll.pc = "returned"
  /\ initAll' = IdleInitAll
  /\ UNCHANGED <<configs, regError, got, fcall>>
  /\ UNCHANGED <<delegVars, agentVars, extraVars>>

\* ------------------------------------------------------------------------
\* Provider Registry: initializeProvider, testProvider, listModels and the
\* adapters' initialize / isReady
\* ------------------------------------------------------------------------

\* the adapters these operations are followed on: the registered types of
\* the loop model and one whose isReady() also wants an API key
AdapterTypes == ProviderTypes \cup {"openrouter"}
LazyTypes == AdapterTypes \cup {"bogus"}

\* an adapter as constructed: private config = null, zai = null
NewAdapter == [config |-> "null", zai |-> FALSE]

\* the ProviderConfig objects by what the adapters read of them: whether
\* apiKey is a non-empty string
ConfigContents == {"noKey", "withKey"}

\* the config stored under type t
StoredConfig(t) == IF t \in apiKeys THEN "withKey" ELSE "noKey"

\* isReady() of the adapter of type t in state a
IsReady(t, a) ==
  CASE t = "openai" -> a.zai /\ a.config # "null"
    [] t = "openrouter" -> a.config # "null" /\ a.config = "withKey"
    [] OTHER -> a.config # "null"

\* the part of the adapter's initialize(config) that runs before it first
\* yields: this.config = config (and the fields copied from it)
InitializeSync(a, cfg) == [a EXCEPT !.config = cfg]

IdleLazyCall == [pc |-> "idle", op |-> "none", type |-> "none",
                 readyAtEntry |-> FALSE, configAtEntry |-> FALSE,
                 initializeCalls |-> 0, delegated |-> FALSE,
                 readyAtDelegate |-> FALSE, result |-> "none"]

lazyFrame == <<delegVars, agentVars, regError, got, fcall, initAll,
               delegationTools, selected, stats, instVars, stat, post, sys>>

\* initializeProvider(type, config) up to its await of provider.initialize
InitializeProvider(t, cfg) ==
  /\ lcall.pc = "idle"
  /\ IF t \notin AdapterTypes
     THEN /\ lcall' = [IdleLazyCall EXCEPT !.pc = "thrown", !.op = "initializeProvider",
                                           !.type = t, !.result = "not_found"]
          /\ UNCHANGED <<adapters, apiKeys, configs>>
     ELSE /\ configs' = configs \cup {t}
          /\ apiKeys' = IF cfg = "withKey" THEN apiKeys \cup {t} ELSE apiKeys \ {t}
          /\ adapters' = [adapters EXCEPT ![t] = InitializeSync(@, cfg)]
          /\ lcall' = [IdleLazyCall EXCEPT !.pc = "awaitInitialize",
                                           !.op = "initializeProvider", !.type = t,
                                           !.initializeCalls = 1]
  /\ UNCHANGED lazyFrame

\* the frame of testProvider / listModels when it calls the adapter's
\* testConnection() / listModels(); `ready` is isReady() at that call
Delegate(f, ready) ==
  [f EXCEPT !.pc = "awaitAdapter", !.delegated = TRUE, !.readyAtDelegate = ready]

\* testProvider(type) / listModels(type) up to its first await or return
LazyCall(op, t) ==
  /\ lcall.pc = "idle"
  /\ LET f == [IdleLazyCall EXCEPT !.op = op, !.type = t] IN
     IF t \notin AdapterTypes
     THEN /\ lcall' = [f EXCEPT !.pc = "returned",
                          !.result = IF op = "testProvider" THEN "not_found" ELSE "empty"]
          /\ UNCHANGED adapters
     ELSE LET ready == IsReady(t, adapters[t])
              g == [f EXCEPT !.readyAtEntry = ready, !.configAtEntry = t \in configs]
          IN IF ready
             THEN /\ lcall' = Delegate(g, TRUE)
                  /\ UNCHANGED adapters
             ELSE IF t \in configs
             THEN /\ adapters' = [adapters EXCEPT ![t] = InitializeSync(@, StoredConfig(t))]
                  /\ lcall' = [g EXCEPT !.pc = "awaitInitialize", !.initializeCalls = 1]
             ELSE IF op = "testProvider"
             THEN /\ lcall' = [g EXCEPT !.pc = "returned", !.result = "not_initialized"]
                  /\ UNCHANGED adapters
             ELSE /\ lcall' = Delegate(g, FALSE)
                  /\ UNCHANGED adapters
  /\ UNCHANGED <<apiKeys, configs>>
  /\ UNCHANGED lazyFrame

\* the awaited provider.initialize(config) resolves (for the openai adapter
\* after ZAI.create() has resolved and zai is set); initializeProvider
\* returns, testProvider / listModels go on to the adapter
LazyInitializeResolves ==
  /\ lcall.pc = "awaitInitialize"
  /\ LET t == lcall.type
         a == IF t = "openai" THEN [adapters[t] EXCEPT !.zai = TRUE] ELSE adapters[t]
     IN /\ adapters' = [adapters EXCEPT ![t] = a]
        /\ lcall' = IF lcall.op = "initializeProvider"
                    THEN [lcall EXCEPT !.pc = "returned", !.result = "void"]
                    ELSE Delegate(lcall, IsReady(t, a))
  /\ UNCHANGED <<apiKeys, configs>>
  /\ UNCHANGED lazyFrame

\* the awaited provider.initialize(config) rejects: only the openai adapter
\* awaits something in it (ZAI.create()); no caller catches the rejection
LazyInitializeRejects ==
  /\ lcall.pc = "awaitInitialize"
  /\ lcall.type = "openai"
  /\ lcall' = [lcall EXCEPT !.pc = "thrown", !.result = "initialize_failed"]
  /\ UNCHANGED <<adapters, apiKeys, configs>>
  /\ UNCHANGED lazyFrame

\* the adapter's testConnection() / listModels() settles and the registry
\* hands what it gave to the caller
LazyAdapterSettles ==
  /\ lcall.pc = "awaitAdapter"
  /\ lcall' = [lcall EXCEPT !.pc = "returned", !.result = "from_adapter"]
  /\ UNCHANGED <<adapters, apiKeys, configs>>
  /\ UNCHANGED lazyFrame

\* the caller has been resumed and may call again
LazyCallReturns ==
  /\ lcall.pc \in {"returned", "thrown"}
  /\ lcall' = IdleLazyCall
  /\ UNCHANGED <<adapters, apiKeys, configs>>
  /\ UNCHANGED lazyFrame

\* ------------------------------------------------------------------------
\* A second Agent instance, and the status getters
\* ------------------------------------------------------------------------
InitialOther == [class |-> "Agent", status |-> "idle", currentTask |-> 0,
                 lastActivity |-> 0, tools |-> {},
                 providerType |-> DefaultProvider, run |-> IdleRun]

\* the responses with at most one tool call
SmallResponses == {r \in Responses : Len(r.toolCalls) <= 1}

otherFrame == <<delegVars, agentVars, registryVars, delegationTools, selected,
                stats, snap, toolVars>>

\* setProvider(type, config) on the second instance
OtherSetProvider(t) ==
  /\ other.run.pc = "idle"
  /\ t # other.providerType
  /\ other' = [other EXCEPT !.providerType = t]
  /\ UNCHANGED otherFrame

\* execute(task) of the second instance up to its first await
OtherExecuteStart(n) ==
  /\ other.run.pc = "idle"
  /\ LET f == TurnFor([IdleRun EXCEPT !.maxIterations = n,
                                      !.messages = InitialMessages,
                                      !.activityAtStart = other.lastActivity],
                      other.providerType, other.tools)
     IN other' = [other EXCEPT !.run = f, !.status = StatusAt(f, "thinking"),
                               !.currentTask = 1]
  /\ UNCHANGED otherFrame

\* the model call awaited by the second instance resolves
OtherModelResponds(resp) ==
  /\ other.run.pc \in {"provider", "default"}
  /\ LET f == AfterResponse(other.run, resp)
     IN other' = [other EXCEPT !.run = f, !.status = StatusAt(f, other.status)]
  /\ UNCHANGED otherFrame

\* the model call awaited by the second instance rejects: fall back from
\* the provider to the default backend, or let the error leave the loop
OtherModelFails ==
  /\ other.run.pc \in {"provider", "default"}
  /\ other' = IF other.run.pc = "provider"
              THEN [other EXCEPT !.run.pc = "default",
                                 !.run.attempts = Append(@,
                                     Request("sdk", DefaultProvider,
                                             other.run.messages, other.tools))]
              ELSE [other EXCEPT !.run.pc = "loopThrown", !.run.error = "backend"]
  /\ UNCHANGED otherFrame

\* a tool call awaited by the second instance resolves
OtherToolCallDone(outcome) ==
  /\ other.run.pc = "tool"
  /\ outcome \in OutcomesFor(other.tools,
                             other.run.response.toolCalls[other.run.tcIndex].name)
  /\ LET h == AfterToolCall(other.run, outcome, other.providerType, other.tools)
     IN other' = [other EXCEPT !.run = h, !.status = StatusAt(h, other.status)]
  /\ UNCHANGED otherFrame

\* mutant: the agent state is a static field, shared by all instances
OtherExecuteFinish_m ==
  /\ other.run.pc \in {"loopReturned", "loopThrown"}
  /\ other' = IF other.run.pc = "loopReturned"
              THEN [other EXCEPT !.status = "idle", !.lastActivity = @ + 1,
                      !.run.pc = "done",
                      !.run.result = [success |-> TRUE, output |-> other.run.loopResult,
                                      error |-> "none"]]
              ELSE [other EXCEPT !.status = CatchStatus(@), !.run.pc = "done",
                      !.run.result = [success |-> FALSE, output |-> "none",
                                      error |-> other.run.error]]
  /\ status' = other'.status
  /\ UNCHANGED <<currentTask, lastActivity, tools, providerType, activeProvider,
                 runners, run>>
  /\ UNCHANGED <<delegVars, registryVars, delegationTools, selected, stats, snap,
                 toolVars>>

\* execute of the second instance after its awaited runAgentLoop
OtherExecuteFinish ==
  /\ other.run.pc \in {"loopReturned", "loopThrown"}
  /\ other' = IF other.run.pc = "loopReturned"
              THEN [other EXCEPT !.status = "idle", !.lastActivity = @ + 1,
                      !.run.pc = "done",
                      !.run.result = [success |-> TRUE, output |-> other.run.loopResult,
                                      error |-> "none"]]
              ELSE [other EXCEPT !.status = CatchStatus(@), !.run.pc = "done",
                      !.run.result = [success |-> FALSE, output |-> "none",
                                      error |-> other.run.error]]
  /\ UNCHANGED otherFrame

\* the concrete orchestrator classes and the iteration cap the execute of
\* each one hands to runAgentLoop
OrchestratorClasses == {"MasterOrchestrator", "AnalyticsOrchestrator",
                        "ResearchOrchestrator", "ContentOrchestrator"}
MaxIterationsOf(class) ==
  CASE class = "MasterOrchestrator" -> 20
    [] class = "AnalyticsOrchestrator" -> 15
    [] class = "ResearchOrchestrator" -> 15
    [] class = "ContentOrchestrator" -> 10

\* the second instance is a new instance of a concrete orchestrator class
NewOrchestrator(class) ==
  /\ other.run.pc \in {"idle", "done"}
  /\ other' = [InitialOther EXCEPT !.class = class]
  /\ UNCHANGED otherFrame

\* execute(task) of a concrete orchestrator up to its first await:
\* runAgentLoop(messages, <the cap of its class>)
OrchestratorExecuteStart ==
  /\ other.class \in OrchestratorClasses
  /\ OtherExecuteStart(MaxIterationsOf(other.class))

\* execute(task) of another subclass of Agent, which hands n to runAgentLoop
AgentExecuteStart(n) ==
  /\ other.class = "Agent"
  /\ OtherExecuteStart(n)

\* the well-formed responses with at most one tool call
CapResponses == {r \in SmallResponses : ParseOk(r.toolCalls)
                                         /\ r.finishReason # "length"}

\* the fields of this.state of the two instances
AgentState == [status |-> status, currentTask |-> currentTask,
               lastActivity |-> lastActivity]
OtherState == [status |-> other.status, currentTask |-> other.currentTask,
               lastActivity |-> other.lastActivity]

\* an object handed to a caller: `ref` tells whether it is a new object
\* ("copy") or the instance's own state object ("state")
NoObject == [ref |-> "none", status |-> "none", currentTask |-> 0, lastActivity |-> 0]
NoSnapshot == [kind |-> "none", fresh |-> FALSE, master |-> NoObject, sub |-> NoObject]

\* mutant: return this.state
GetStatus_m(st) ==
  [ref |-> "state", status |-> st.status, currentTask |-> st.currentTask,
   lastActivity |-> st.lastActivity]

\* getStatus(): return { ...this.state }
GetStatus(st) ==
  [ref |-> "copy", status |-> st.status, currentTask |-> st.currentTask,
   lastActivity |-> st.lastActivity]

snapFrame == <<delegVars, registryVars, delegationTools, selected, stats, toolVars>>

\* a caller calls getStatus() on the orchestrator
GetStatusCall ==
  /\ snap' = [kind |-> "status", fresh |-> TRUE,
              master |-> GetStatus(AgentState), sub |-> NoObject]
  /\ UNCHANGED <<agentVars, other, snapFrame>>

\* a caller calls getSystemStatus() on the Master: its own getStatus() and
\* that of each sub-orchestrator it owns (one of them is modelled)
GetSystemStatusCall ==
  /\ snap' = [kind |-> "system", fresh |-> TRUE,
              master |-> GetStatus(AgentState), sub |-> GetStatus(OtherState)]
  /\ UNCHANGED <<agentVars, other, snapFrame>>

\* the assignments a caller makes to a top-level field of a returned object
SnapshotWrites == {[field |-> "status", value |-> "waiting"],
                   [field |-> "currentTask", value |-> 99]}

\* the caller assigns w.value to the field w.field of the object `which`
\* of the returned value; an object that is an instance's own state object
\* is written in place
AssignSnapshot(which, w) ==
  /\ snap[which].ref # "none"
  /\ IF snap[which].ref = "copy"
     THEN /\ snap' = [snap EXCEPT ![which][w.field] = w.value, !.fresh = FALSE]
          /\ UNCHANGED <<status, currentTask, other>>
     ELSE /\ snap' = [snap EXCEPT !.fresh = FALSE]
          /\ IF which = "master"
             THEN /\ status' = IF w.field = "status" THEN w.value ELSE status
                  /\ currentTask' = IF w.field = "currentTask" THEN w.value
                                    ELSE currentTask
                  /\ other' = other
             ELSE /\ other' = [other EXCEPT ![w.field] = w.value]
                  /\ UNCHANGED <<status, currentTask>>
  /\ UNCHANGED <<lastActivity, tools, providerType, activeProvider, runners, run>>
  /\ UNCHANGED snapFrame

\* ------------------------------------------------------------------------
\* getAgentSystem() of app/api/agents/route.ts
\* ------------------------------------------------------------------------
Requests == 1..MaxRequests

\* `let agentSystem = null` (0: null), the number of createAgentSystem()
\* calls made so far (call k returns the new instance k), and the requests
IdleRequest == [pc |-> "idle", creating |-> 0, system |-> 0]
InitialSys == [agentSystem |-> 0, created |-> 0,
               req |-> [r \in Requests |-> IdleRequest]]

sysFrame == <<delegVars, agentVars, registryVars, delegationTools, selected, stats,
              instVars, stat, post, lazyVars>>

\* getAgentSystem: if (!agentSystem)
CreateNeeded(y) == y.agentSystem = 0

\* a handler of the route (GET or POST) calls getAgentSystem(): up to the
\* await of createAgentSystem(), or to the return of the stored instance
GetAgentSystem(r) ==
  /\ sys.req[r].pc = "idle"
  /\ sys' = IF CreateNeeded(sys)
            THEN [sys EXCEPT !.created = @ + 1,
                             !.req[r] = [pc |-> "awaitCreate",
                                         creating |-> sys.created + 1, system |-> 0]]
            ELSE [sys EXCEPT !.req[r] = [pc |-> "has", creating |-> 0,
                                         system |-> sys.agentSystem]]
  /\ UNCHANGED sysFrame

\* the awaited createAgentSystem() resolves with the instance it built:
\* agentSystem = <that instance>; return agentSystem
CreateAgentSystemResolves(r) ==
  /\ sys.req[r].pc = "awaitCreate"
  /\ sys' = [sys EXCEPT !.agentSystem = sys.req[r].creating,
                        !.req[r].pc = "has",
                        !.req[r].system = sys.req[r].creating]
  /\ UNCHANGED sysFrame

\* the awaited createAgentSystem() rejects (ZAI.create() failed in one of
\* the initialize calls): getAgentSystem rejects, the handler answers 500
CreateAgentSystemRejects(r) ==
  /\ sys.req[r].pc = "awaitCreate"
  /\ sys' = [sys EXCEPT !.req[r].pc = "failed"]
  /\ UNCHANGED sysFrame

\* ------------------------------------------------------------------------
\* Built-in tools: statisticalAnalysisTool (tools/analytics.ts)
\* ------------------------------------------------------------------------
MaxData == 5         \* longest data array handed to the statistical tool

\* a JavaScript number that the tool computes is kept as an exact fraction
\* in lowest terms with a positive denominator
RECURSIVE Gcd(_, _)
Gcd(a, b) == IF b = 0 THEN a ELSE Gcd(b, a % b)
Abs(x) == IF x < 0 THEN -x ELSE x
Number(n, d) ==
  LET g == Gcd(Abs(n), d) IN [num |-> n \div g, den |-> d \div g]
Add(x, y) == Number(x.num * y.den + y.num * x.den, x.den * y.den)
Sub(x, y) == Number(x.num * y.den - y.num * x.den, x.den * y.den)
Mul(x, y) == Number(x.num * y.num, x.den * y.den)
DivInt(x, n) == Number(x.num, x.den * n)

\* Math.sqrt, to two decimal places: the greatest multiple of 1/SqrtScale
\* whose square does not exceed x, found by bisection of lo..hi
SqrtScale == 100
RECURSIVE SqrtBetween(_, _, _)
SqrtBetween(x, lo, hi) ==
  IF lo = hi THEN lo
  ELSE LET mid == (lo + hi + 1) \div 2
       IN IF mid * mid * x.den <= x.num * SqrtScale * SqrtScale
          THEN SqrtBetween(x, mid, hi)
          ELSE SqrtBetween(x, lo, mid - 1)
Sqrt(x) == [num |-> SqrtBetween(x, 0, (x.num \div x.den + 1) * SqrtScale),
            den |-> SqrtScale]

\* the elements of a data array: numbers and values that are not numbers
DataNumbers == 1..5
DataElements == [type : {"number"}, value : DataNumbers]
                  \cup {[type |-> "string", value |-> 0]}
DataArrays == UNION {[1..k -> DataElements] : k \in 0..MaxData}
OperationLists == { <<"mean", "median", "std">>, <<"variance">>,
                    <<"median", "count", "sum", "min", "max">> }
DefaultOperations == <<"mean", "median", "std", "min", "max", "sum", "count">>
StatParams == [data : DataArrays, hasOperations : {TRUE}, operations : OperationLists]
                \cup [data : DataArrays, hasOperations : {FALSE}, operations : {<< >>}]

\* data.filter((n) => typeof n === 'number' && !isNaN(n))
IsNumeric(e) == e.type = "number"
NumericData(data) ==
  LET kept == SelectSeq(data, IsNumeric) IN [i \in 1..Len(kept) |-> kept[i].value]

\* [...numericData].sort((a, b) => a - b)
RECURSIVE Insert(_, _)
Insert(x, sorted) ==
  IF sorted = << >> THEN <<x>>
  ELSE IF x <= Head(sorted) THEN <<x>> \o sorted
       ELSE <<Head(sorted)>> \o Insert(x, Tail(sorted))
RECURSIVE SortAscending(_)
SortAscending(a) ==
  IF a = << >> THEN << >> ELSE Insert(Head(a), SortAscending(Tail(a)))

\* sorted.reduce((a, b) => a + b, 0)
RECURSIVE Sum(_)
Sum(a) == IF a = << >> THEN 0 ELSE Head(a) + Sum(Tail(a))

\* sum / n
Mean(sorted) == Number(Sum(sorted), Len(sorted))

\* mutant: the upper middle element also when n is even
Median_m(sorted) ==
  LET n == Len(sorted) IN Number(sorted[n \div 2 + 1], 1)

\* n % 2 === 0 ? (sorted[n/2 - 1] + sorted[n/2]) / 2 : sorted[Math.floor(n/2)]
\* (the array is indexed from 0 in the code, from 1 here)
Median(sorted) ==
  LET n == Len(sorted)
  IN IF n % 2 = 0
     THEN Number(sorted[n \div 2] + sorted[n \div 2 + 1], 2)
     ELSE Number(sorted[n \div 2 + 1], 1)

\* sorted.reduce((acc, n) => acc + Math.pow(n - mean, 2), 0) / n
RECURSIVE SumSquaredDeviations(_, _)
SumSquaredDeviations(a, mean) ==
  IF a = << >> THEN Number(0, 1)
  ELSE LET d == Sub(Number(Head(a), 1), mean)
       IN Add(Mul(d, d), SumSquaredDeviations(Tail(a), mean))
Variance(sorted) == DivInt(SumSquaredDeviations(sorted, Mean(sorted)), Len(sorted))

\* operations.includes(name)
OperationsInclude(ops, name) == \E i \in DOMAIN ops : ops[i] = name

\* the keys the tool sets in `results` for the operations
ResultKeys(ops) ==
  {k \in {"count", "sum", "mean", "min", "max", "median"} : OperationsInclude(ops, k)}
    \cup (IF OperationsInclude(ops, "variance") \/ OperationsInclude(ops, "std")
          THEN {"variance", "std"} ELSE {})

\* statisticalAnalysisTool.execute(params): the ToolResult it resolves to
StatisticalAnalysis(params) ==
  LET operations == IF params.hasOperations THEN params.operations
                    ELSE DefaultOperations
      sorted == SortAscending(NumericData(params.data))
      n == Len(sorted)
      value(k) == CASE k = "count" -> Number(n, 1)
                    [] k = "sum" -> Number(Sum(sorted), 1)
                    [] k = "mean" -> Mean(sorted)
                    [] k = "min" -> Number(sorted[1], 1)
                    [] k = "max" -> Number(sorted[n], 1)
                    [] k = "median" -> Median(sorted)
                    [] k = "variance" -> Variance(sorted)
                    [] k = "std" -> Sqrt(Variance(sorted))
  IN IF Len(params.data) = 0
     THEN ToolResult(FALSE, "none", "data_must_be_non_empty_array")
     ELSE IF n = 0
     THEN ToolResult(FALSE, "none", "no_valid_numeric_values")
     ELSE ToolResult(TRUE, [k \in ResultKeys(operations) |-> value(k)], "none")

NoStat == [called |-> FALSE, params |-> [data |-> << >>, hasOperations |-> FALSE,
                                         operations |-> << >>],
           result |-> ToolResult(FALSE, "none", "unset")]

\* a call of the statistical tool with any of the parameters; it has no
\* await inside
StatisticalAnalysisCall ==
  /\ ~stat.called
  /\ \E params \in StatParams :
       stat' = [called |-> TRUE, params |-> params,
                result |-> StatisticalAnalysis(params)]
  /\ UNCHANGED <<delegVars, agentVars, registryVars, delegationTools, selected, stats,
                 instVars, post, lazyVars, sys>>

\* the caller has consumed the ToolResult and may call again
StatisticalAnalysisReturns ==
  /\ stat.called
  /\ stat' = NoStat
  /\ UNCHANGED <<delegVars, agentVars, registryVars, delegationTools, selected, stats,
                 instVars, post, lazyVars, sys>>

\* ------------------------------------------------------------------------
\* POST /api/agents (app/api/agents/route.ts)
\* ------------------------------------------------------------------------

\* the request bodies: the fields the handler or the documentation name
\* ("text": a non-empty string), and a body that is not JSON
JsonBodies == [kind : {"json"}, task : {"absent", "empty", "text"},
               message : {"absent", "text"}, context : {"absent", "object"},
               directTo : {"absent", "analytics", "research", "content", "other"}]
MalformedBody == [kind |-> "malformed", task |-> "absent", message |-> "absent",
                  context |-> "absent", directTo |-> "absent"]
NoPayload == [success |-> FALSE, output |-> "none", error |-> "none"]
IdlePost == [pc |-> "idle", body |-> MalformedBody, via |-> "none",
             context |-> "absent", statusCode |-> 0, payload |-> NoPayload]

postFrame == <<delegVars, agentVars, registryVars, delegationTools, selected, stats,
               instVars, stat, lazyVars, sys>>

\* const { task, context, directTo } = body
TaskOf(body) == body.task

\* if (!task): undefined and the empty string are falsy
Falsy(str) == str \in {"absent", "empty"}

\* the sub-orchestrators the switch on directTo constructs
DirectTargets == {"analytics", "research", "content"}

\* POST(request) up to await request.json()
PostStart ==
  /\ post.pc = "idle"
  /\ post' = [IdlePost EXCEPT !.pc = "awaitBody"]
  /\ UNCHANGED postFrame

\* request.json() resolves with `body`: the 400 answer when no task is
\* given, otherwise up to await getAgentSystem()
PostBodyRead(body) ==
  /\ post.pc = "awaitBody"
  /\ post' = IF Falsy(TaskOf(body))
             THEN [post EXCEPT !.pc = "responded", !.body = body, !.statusCode = 400,
                               !.payload.error = "Task description is required"]
             ELSE [post EXCEPT !.pc = "awaitSystem", !.body = body]
  /\ UNCHANGED postFrame

\* the awaited getAgentSystem() resolves: the branch on directTo up to the
\* await of initialize() of a new sub-orchestrator or of system.execute;
\* the task handed to execute carries the context as metadata
PostSystemReady ==
  /\ post.pc = "awaitSystem"
  /\ post' = IF post.body.directTo \in DirectTargets
             THEN [post EXCEPT !.pc = "awaitInitialize", !.via = post.body.directTo,
                               !.context = post.body.context]
             ELSE [post EXCEPT !.pc = "awaitExecute", !.via = "master",
                               !.context = post.body.context]
  /\ UNCHANGED postFrame

\* the awaited initialize() of the sub-orchestrator resolves
PostInitialized ==
  /\ post.pc = "awaitInitialize"
  /\ post' = [post EXCEPT !.pc = "awaitExecute"]
  /\ UNCHANGED postFrame

\* the awaited execute resolves with a TaskResult: the 200 answer
PostExecuteReturns(result) ==
  /\ post.pc = "awaitExecute"
  /\ post' = [post EXCEPT !.pc = "responded", !.statusCode = 200,
                          !.payload = [success |-> result.success,
                                       output |-> result.output,
                                       error |-> result.error]]
  /\ UNCHANGED postFrame

\* request.json(), getAgentSystem() or initialize() rejects: the catch
\* block answers 500 (execute has a catch-all and does not reject)
PostAwaitRejects ==
  /\ post.pc \in {"awaitBody", "awaitSystem", "awaitInitialize"}
  /\ post' = [post EXCEPT !.pc = "responded", !.statusCode = 500,
                          !.body = IF post.pc = "awaitBody" THEN MalformedBody ELSE @,
                          !.payload.error = "thrown"]
  /\ UNCHANGED postFrame

\* the response was sent; the next request may come
PostDone ==
  /\ post.pc = "responded"
  /\ post' = IdlePost
  /\ UNCHANGED postFrame

\* ------------------------------------------------------------------------
\* Specifications
\* ------------------------------------------------------------------------
InitInstVars == other = InitialOther /\ snap = NoSnapshot

InitToolVars ==
  /\ stat = NoStat
  /\ post = IdlePost
  /\ adapters = [t \in AdapterTypes |-> NewAdapter]
  /\ apiKeys = {}
  /\ lcall = IdleLazyCall
  /\ sys = InitialSys

Init ==
  InitDelegVars /\ InitAgentVars /\ InitRegistryVars /\ InitInstVars /\ InitToolVars

\* one execute call at a time on one orchestrator instance
Next ==
  \/ \E n \in ClassTools : RegisterTool(n)
  \/ \E t \in ProviderTypes : SetProvider(t)
  \/ \E t \in ProviderTypes : SetActiveProvider(t)
  \/ \E c \in Runs, n \in 0..MaxIter : ExecuteStart(c, n)
  \/ \E c \in Runs, r \in Responses : ProviderResponds(c, r)
  \/ \E c \in Runs : ProviderFails(c)
  \/ \E c \in Runs, r \in Responses : DefaultResponds(c, r)
  \/ \E c \in Runs : DefaultFails(c)
  \/ \E c \in Runs, o \in ToolOutcomes \cup {"absent"} : ToolCallDone(c, o)
  \/ \E c \in Runs : ExecuteFinish(c)

Spec == Init /\ [][Next]_vars

\* the orchestrator's delegation and task bookkeeping, overlapping callers
NextDelegation ==
  \/ \E a \in Registrable :
        RegisterSubAgent([id |-> a, name |-> DefaultName], DefaultCapabilities)
  \/ \E c \in Callers, a \in AgentIds : DelegateTask(c, a)
  \/ \E c \in Callers, r \in SubResults : SubAgentReturns(c, r)
  \/ \E c \in Callers : SubAgentThrows(c)
  \/ \E c \in Callers, op \in {"system", "masterTool"} : WrapperExecute(c, op)
  \/ \E c \in Callers, r \in SubResults : WrapperReturns(c, r)
  \/ \E c \in Callers : CallerContinues(c)

SpecDeleg == Init /\ [][NextDelegation]_vars

\* the operations of the Provider Registry, called in any order
NextRegistry ==
  \/ \E t \in RequestedTypes : SetActiveProvider(t)
  \/ GetActiveProvider
  \/ FactoryCreateChatCompletion
  \/ AdapterSettles
  \/ \E e \in ConfigEntries : InitializeAllStart(e)
  \/ InitializeResolves
  \/ InitializeRejects
  \/ InitializeAllReturns

SpecRegistry == Init /\ [][NextRegistry]_vars

\* registration of sub-agents with their capabilities, and the selector
NextSelect ==
  \/ \E a \in AgentIds, caps \in CapabilityLists :
        RegisterSubAgent([id |-> a, name |-> DefaultName], caps)
  \/ \E d \in Descriptions : SelectBestAgentCall(d)

SpecSelect == Init /\ [][NextSelect]_vars

\* registration of sub-agents under their names, and the delegation tools
NextSubAgents ==
  \/ \E a \in AgentIds, n \in AgentNames :
        RegisterSubAgent([id |-> a, name |-> n], DefaultCapabilities)
  \/ \E n \in {DelegationToolName(x) : x \in AgentNames} : ExecuteDelegationTool(1, n)
  \/ \E r \in SubResults : SubAgentReturns(1, r)
  \/ CallerContinues(1)

SpecSubAgents == Init /\ [][NextSubAgents]_vars

\* delegateTask calls that overlap, observed through getStats
NextStats ==
  \/ \E a \in Registrable :
        RegisterSubAgent([id |-> a, name |-> DefaultName], DefaultCapabilities)
  \/ \E c \in Callers : DelegateTask(c, "a1")
  \/ \E c \in Callers, r \in SubResults : SubAgentReturns(c, r)
  \/ \E c \in Callers : SubAgentThrows(c)
  \/ \E c \in Callers : CallerContinues(c)
  \/ GetStatsCall

SpecStats == Init /\ [][NextStats]_vars

\* one turn of the loop on an orchestrator that has built-in tools and an
\* explicit delegation tool
NextTools ==
  \/ \E n \in ClassTools \cup MasterTools : RegisterTool(n)
  \/ ExecuteStart(1, 1)
  \/ \E r \in [finishReason : FinishReasons,
               toolCalls : CallSeqsOver(RequestNames \cup MasterTools)] :
        DefaultResponds(1, r)
  \/ DefaultFails(1)
  \/ \E o \in ToolOutcomes \cup DelegationOutcomes \cup {"absent"} : ToolCallDone(1, o)
  \/ ExecuteFinish(1)

SpecTools == Init /\ [][NextTools]_vars

\* an execute call on the orchestrator while callers read its status
NextStatus ==
  \/ ExecuteStart(1, 1)
  \/ \E r \in SmallResponses : DefaultResponds(1, r)
  \/ DefaultFails(1)
  \/ ToolCallDone(1, "absent")
  \/ ExecuteFinish(1)
  \/ GetStatusCall
  \/ GetSystemStatusCall
  \/ \E which \in {"master", "sub"}, w \in SnapshotWrites : AssignSnapshot(which, w)

SpecStatus == Init /\ [][NextStatus]_vars

\* two independent instances, an execute call on each, in any interleaving
NextTwo ==
  \/ \E t \in ProviderTypes : SetProvider(t)
  \/ ExecuteStart(1, 1)
  \/ \E r \in SmallResponses : ProviderResponds(1, r)
  \/ ProviderFails(1)
  \/ \E r \in SmallResponses : DefaultResponds(1, r)
  \/ DefaultFails(1)
  \/ ToolCallDone(1, "absent")
  \/ ExecuteFinish(1)
  \/ \E t \in ProviderTypes : OtherSetProvider(t)
  \/ OtherExecuteStart(1)
  \/ \E r \in SmallResponses : OtherModelResponds(r)
  \/ OtherModelFails
  \/ OtherToolCallDone("absent")
  \/ OtherExecuteFinish

SpecTwo == Init /\ [][NextTwo]_vars

\* calls of the statistical tool on every data array and operation list
NextStatistics ==
  \/ StatisticalAnalysisCall
  \/ StatisticalAnalysisReturns

SpecStatistics == Init /\ [][NextStatistics]_vars

\* requests to POST /api/agents, one at a time
NextPost ==
  \/ PostStart
  \/ \E b \in JsonBodies : PostBodyRead(b)
  \/ PostSystemReady
  \/ PostInitialized
  \/ \E r \in {TaskSucceeded, TaskFailed} : PostExecuteReturns(r)
  \/ PostAwaitRejects
  \/ PostDone

SpecPost == Init /\ [][NextPost]_vars

\* the registry's operations that initialize an adapter, one call at a time
NextLazy ==
  \/ \E t \in LazyTypes, cfg \in ConfigContents : InitializeProvider(t, cfg)
  \/ \E op \in {"testProvider", "listModels"}, t \in LazyTypes : LazyCall(op, t)
  \/ LazyInitializeResolves
  \/ LazyInitializeRejects
  \/ LazyAdapterSettles
  \/ LazyCallReturns

SpecLazy == Init /\ [][NextLazy]_vars

\* requests to /api/agents that overlap, each calling getAgentSystem() once
NextSystem ==
  \/ \E r \in Requests : GetAgentSystem(r)
  \/ \E r \in Requests : CreateAgentSystemResolves(r)
  \/ \E r \in Requests : CreateAgentSystemRejects(r)

SpecSystem == Init /\ [][NextSystem]_vars

\* the two execute calls followed on one instance
TwoRuns == {1, 2}

\* execute calls on one instance, each made after the previous one returned
NextSerial ==
  \/ \E n \in ClassTools : RegisterTool(n)
  \/ \E t \in ProviderTypes : SetProvider(t)
  \/ AnotherCaller
  \/ \E c \in TwoRuns, n \in -1..2 : SerialExecuteStart(c, n)
  \/ \E c \in TwoRuns, r \in SmallResponses : ProviderResponds(c, r)
  \/ \E c \in TwoRuns : ProviderFails(c)
  \/ \E c \in TwoRuns, r \in SmallResponses : DefaultResponds(c, r)
  \/ \E c \in TwoRuns : DefaultFails(c)
  \/ \E c \in TwoRuns, o \in ToolOutcomes \cup {"absent"} : ToolCallDone(c, o)
  \/ \E c \in TwoRuns : ExecuteFinish(c)

SpecSerial == Init /\ [][NextSerial]_vars

\* execute calls on one instance that overlap
NextOverlap ==
  \/ AnotherCaller
  \/ \E c \in TwoRuns : ConcurrentExecuteStart(c, 1)
  \/ \E c \in TwoRuns, r \in SmallResponses : DefaultResponds(c, r)
  \/ \E c \in TwoRuns : DefaultFails(c)
  \/ \E c \in TwoRuns : ToolCallDone(c, "absent")
  \/ \E c \in TwoRuns : ExecuteFinish(c)

SpecOverlap == Init /\ [][NextOverlap]_vars

\* execute calls on instances of the concrete orchestrator classes, each
\* with the iteration cap of its class
NextCaps ==
  \/ \E k \in OrchestratorClasses : NewOrchestrator(k)
  \/ \E t \in ProviderTypes : OtherSetProvider(t)
  \/ OrchestratorExecuteStart
  \/ \E n \in 0..MaxIter : AgentExecuteStart(n)
  \/ \E r \in CapResponses : OtherModelResponds(r)
  \/ OtherModelFails
  \/ OtherToolCallDone("absent")
  \/ OtherExecuteFinish

SpecCaps == Init /\ [][NextCaps]_vars

\* ------------------------------------------------------------------------
\* Properties of delegateTask and of the task life cycle (SpecDeleg)
\* ------------------------------------------------------------------------
DelegateCall(c) == dcall[c].op = "delegate" /\ dcall[c].taskId # 0

\* C1: a task created by delegateTask for a registered sub-agent is a key of
\* exactly one of pendingTasks / completedTasks at every instant: of
\* pendingTasks while the sub-agent's execute is awaited, of completedTasks
\* (and not of pendingTasks) once delegateTask has returned.
C1_ExactlyOneMap ==
  /\ \A t \in TaskIds : tasks[t].creator = "delegate" =>
        ((t \in pendingTasks) # (t \in DOMAIN completedTasks))
  /\ \A c \in Callers : DelegateCall(c) /\ dcall[c].pc = "awaitExecute" =>
        dcall[c].taskId \in pendingTasks
  /\ \A c \in Callers : DelegateCall(c) /\ dcall[c].pc # "awaitExecute" =>
        /\ dcall[c].pc = "returned"
        /\ dcall[c].taskId \in DOMAIN completedTasks
        /\ dcall[c].taskId \notin pendingTasks

\* C1 witness: one delegateTask call has returned while another one is
\* still awaiting its sub-agent
C1_Witness ==
  \E c, d \in Callers :
    /\ DelegateCall(c) /\ dcall[c].pc = "returned"
    /\ DelegateCall(d) /\ dcall[d].pc = "awaitExecute"

\* C2: delegateTask with an agent id that is not a key of subAgents returns
\* {success:false, error} at once (no sub-agent is awaited, nothing is
\* thrown) and leaves pendingTasks, completedTasks and every task as they
\* were; no task id is consumed.
C2_UnknownAgentNoEffect ==
  [][\A c \in Callers :
       (/\ dcall[c].pc = "idle"
        /\ dcall'[c].op = "delegate"
        /\ dcall'[c].agentId \notin SubAgentIds)
       => /\ dcall'[c].pc = "returned"
          /\ dcall'[c].ret.success = FALSE
          /\ dcall'[c].ret.error = "not_found"
          /\ dcall'[c].taskId = 0
          /\ pendingTasks' = pendingTasks
          /\ completedTasks' = completedTasks
          /\ tasks' = tasks
          /\ nextTaskId' = nextTaskId]_vars

\* C2 witness: an unknown-agent call has returned its failure while a task
\* is pending and another one is completed
C2_Witness ==
  \E c \in Callers :
    /\ dcall[c].pc = "returned"
    /\ dcall[c].ret = NotFoundResult
    /\ dcall[c].agentId \notin SubAgentIds
    /\ pendingTasks # {}
    /\ DOMAIN completedTasks # {}

\* C3: when the awaited execute of the sub-agent ends, by a result or by an
\* exception, delegateTask returns (it does not throw) and its task is no
\* longer in pendingTasks; if execute threw, the returned TaskResult has
\* success=false, the task is failed and completedTasks records that result.
C3_SubAgentThrowIsCaught ==
  [][\A c \in Callers :
       (/\ dcall[c].op = "delegate"
        /\ dcall[c].pc = "awaitExecute"
        /\ dcall'[c].pc # "awaitExecute")
       => /\ dcall'[c].pc = "returned"
          /\ dcall'[c].taskId = dcall[c].taskId
          /\ dcall[c].taskId \notin pendingTasks'
          /\ dcall'[c].subThrew =>
               /\ dcall'[c].ret.success = FALSE
               /\ dcall'[c].ret.error = "thrown"
               /\ tasks'[dcall[c].taskId].status = "failed"
               /\ tasks'[dcall[c].taskId].result = dcall'[c].ret
               /\ dcall[c].taskId \in DOMAIN completedTasks'
               /\ completedTasks'[dcall[c].taskId] = dcall'[c].ret]_vars

\* C3 witness: a delegateTask call whose sub-agent threw has returned
C3_Witness ==
  \E c \in Callers :
    /\ DelegateCall(c)
    /\ dcall[c].pc = "returned"
    /\ dcall[c].subThrew
    /\ tasks[dcall[c].taskId].status = "failed"

StatusStep(s, t) ==
  \/ s = t
  \/ s = "none" /\ t \in {"pending", "in_progress"}
  \/ s = "pending" /\ t \in {"in_progress", "delegated"}
  \/ s = "in_progress" /\ t \in {"completed", "failed"}

\* C8: the status of every task (created by createAgentSystem's execute, by
\* delegateTask or by a delegation tool of the Master) changes only along
\* pending -> {in_progress, delegated} and in_progress -> {completed,
\* failed}: a terminal status is entered from in_progress only and is never
\* left again.
C8_StatusTransitions ==
  [][\A t \in TaskIds : StatusStep(tasks[t].status, tasks'[t].status)]_vars

\* C8 witness: tasks of all three origins exist, the delegated one terminal
C8_Witness ==
  /\ \E t \in TaskIds : tasks[t].creator = "delegate"
                        /\ tasks[t].status \in {"completed", "failed"}
  /\ \E t \in TaskIds : tasks[t].creator = "system"
  /\ \E t \in TaskIds : tasks[t].creator = "masterTool"
\* ------------------------------------------------------------------------
\* Properties of execute, runAgentLoop, callLLM and executeToolCall (Spec)
\* ------------------------------------------------------------------------

\* C4: the execute of a concrete orchestrator never throws to its caller;
\* when an error was thrown inside it (by the backend or while parsing the
\* response) it returns {success:false, error} and the status is error,
\* otherwise it returns {success:true, output} and the status is idle.
C4_ExecuteNeverThrows ==
  \A c \in Runs :
    /\ run[c].pc # "executeThrown"
    /\ run[c].pc = "done" =>
         IF run[c].error # "none"
         THEN /\ run[c].result.success = FALSE
              /\ run[c].result.error = run[c].error
              /\ status = "error"
         ELSE /\ run[c].result.success = TRUE
              /\ run[c].result.output = run[c].loopResult
              /\ run[c].result.error = "none"
              /\ status = "idle"

\* C4 witness: execute has returned a failure after the provider and the
\* fallback backend both failed
C4_Witness ==
  \E c \in Runs : /\ run[c].pc = "done"
                  /\ run[c].error = "backend"
                  /\ Len(run[c].attempts) = 2
                  /\ run[c].result.success = FALSE

LoopEnded(c) == run[c].pc \in {"loopReturned", "loopThrown"}

\* C5: runAgentLoop with maxIterations = N >= 1 and a model that answers
\* every turn with a tool-call request ends after exactly N model calls,
\* returning the sentinel, without throwing and with the status idle.
C5_ExhaustionAfterNCalls ==
  \A c \in Runs :
    (/\ LoopEnded(c)
     /\ run[c].maxIterations >= 1
     /\ run[c].responses = run[c].toolTurns
     /\ run[c].error # "backend")
    => /\ run[c].pc = "loopReturned"
       /\ run[c].modelCalls = run[c].maxIterations
       /\ run[c].loopResult = Sentinel
       /\ status = "idle"

\* C6: runAgentLoop on an agent with no registered tool ends after exactly
\* one model call, whatever maxIterations >= 1 and whatever the response.
C6_NoToolsOneModelCall ==
  \A c \in Runs :
    (tools = {} /\ run[c].maxIterations >= 1) =>
       /\ run[c].modelCalls <= 1
       /\ LoopEnded(c) => run[c].modelCalls = 1

\* the step of run c that completes a call of a tool that is not registered
UnknownToolStep(c) ==
  /\ run[c].pc = "tool"
  /\ run'[c] # run[c]
  /\ run[c].response.toolCalls[run[c].tcIndex].name \notin tools

\* what that step does in every case: a failed ToolResult naming the unknown
\* tool, no exception, a tool-result message tagged with the call's id
UnknownToolRecorded(c) ==
  LET f == run[c]
      g == run'[c]
      n == Len(f.response.toolCalls)
      id == CallId(f.iterations, f.tcIndex)
      unknownResult == [success |-> FALSE, data |-> "none", error |-> "unknown_tool"]
  IN /\ g.pc # "loopThrown"
     /\ g.error = "none"
     /\ g.allMessages = Append(f.allMessages, Msg("tool", 0, << >>))
     /\ g.toolResults = Append(f.toolResults,
                               [toolCallId |-> id, result |-> unknownResult,
                                threw |-> FALSE])
     /\ f.tcIndex < n => /\ g.pc = "tool"
                         /\ g.tcIndex = f.tcIndex + 1
     /\ f.tcIndex = n => /\ Len(g.messages) > Len(f.messages)
                         /\ g.messages[Len(g.messages)] = Msg("tool", id, << >>)

LastCallOfTurn(c) == run[c].tcIndex = Len(run[c].response.toolCalls)

\* C7 as stated: a call of an unregistered tool yields success=false with
\* the unknown-tool error, never throws, its tool-result message is
\* appended and the next model call is made.
C7_UnknownToolNextModelCall ==
  [][\A c \in Runs : UnknownToolStep(c) =>
        /\ UnknownToolRecorded(c)
        /\ LastCallOfTurn(c) =>
             /\ run'[c].modelCalls = run[c].modelCalls + 1
             /\ run'[c].pc \in {"provider", "default"}]_vars

\* C7 amended: as above, but after the last call of the turn the next model
\* call is made only if fewer than maxIterations turns were made; at the cap
\* the loop returns the sentinel instead.
C7_UnknownToolLoopContinues ==
  [][\A c \in Runs : UnknownToolStep(c) =>
        /\ UnknownToolRecorded(c)
        /\ LastCallOfTurn(c) =>
             IF run[c].iterations < run[c].maxIterations
             THEN /\ run'[c].modelCalls = run[c].modelCalls + 1
                  /\ run'[c].pc \in {"provider", "default"}
                  /\ run'[c].attempts[1].messages[Len(run'[c].messages)].toolCallId
                       = CallId(run[c].iterations, run[c].tcIndex)
             ELSE /\ run'[c].modelCalls = run[c].modelCalls
                  /\ run'[c].pc = "loopReturned"
                  /\ run'[c].loopResult = Sentinel]_vars

\* C7 witness: the model call that follows a turn with an unknown tool is
\* being awaited, the unknown-tool result in its message list
C7_Witness ==
  \E c \in Runs :
    /\ run[c].pc \in {"provider", "default"}
    /\ \E i \in 1..Len(run[c].toolResults) :
         /\ run[c].toolResults[i].result.error = "unknown_tool"
         /\ run[c].messages[Len(run[c].messages) - Len(run[c].toolResults) + i]
              = Msg("tool", run[c].toolResults[i].toolCallId, << >>)

\* C9: per callLLM, an agent on a non-default provider type first calls the
\* provider factory; an error of that call is not propagated but followed by
\* exactly one call of the default backend, whose response is returned or
\* whose error propagates. An agent on the default type calls the default
\* backend only and its error propagates without retry. No callLLM makes
\* more than two attempts.
C9_ProviderFallback ==
  [][\A c \in Runs :
       LET f == run[c]
           g == run'[c]
       IN /\ Len(g.attempts) <= 2
          /\ g.pc = "provider" =>
               /\ UsesRegistry(providerType')
               /\ Len(g.attempts) = 1
               /\ g.attempts[1].via = "registry"
          /\ (g.pc = "default" /\ ~UsesRegistry(providerType')) =>
               /\ Len(g.attempts) = 1
               /\ g.attempts[1].via = "sdk"
          /\ (f.pc = "provider" /\ g.pc # "provider") =>
               \/ /\ g.pc = "default"
                  /\ Len(g.attempts) = 2
                  /\ g.attempts[1] = f.attempts[1]
                  /\ g.attempts[2].via = "sdk"
                  /\ g.error = "none"
               \/ /\ g.pc \in {"tool", "loopReturned"}
                  /\ g.attempts = f.attempts
               \/ /\ g.pc = "loopThrown"
                  /\ g.error = "parse"
                  /\ g.attempts = f.attempts
          /\ (f.pc = "default" /\ g.pc # "default") =>
               /\ g.attempts = f.attempts
               /\ g.pc \in {"tool", "loopReturned", "loopThrown"}]_vars

\* C9 witness: the provider failed and the response of the default backend
\* was returned and ended the loop
C9_Witness ==
  \E c \in Runs : /\ Len(run[c].attempts) = 2
                  /\ run[c].pc = "loopReturned"
                  /\ run[c].loopResult = "content"

\* C10: every model call of the loop is sent, with the accumulated messages
\* and the registered tool schemas, to the adapter that is the Provider
\* Registry's active one when the call is made.
C10_ServedByActiveAdapter ==
  \A c \in Runs :
    run[c].pc \in {"provider", "default"} =>
      LET a == run[c].attempts[Len(run[c].attempts)]
      IN /\ a.via = "registry"
         /\ a.adapter \in ProviderTypes
         /\ a.tools = tools
         /\ Len(a.messages) = Len(run[c].messages)

\* ------------------------------------------------------------------------
\* Properties of the Provider Registry (SpecRegistry)
\* ------------------------------------------------------------------------

\* C11: the registry holds one adapter per type and its active type is a
\* registered one after any sequence of operations: setActiveProvider with
\* an unregistered type throws and leaves the active type as it was,
\* getActiveProvider never fails and returns the active adapter, and
\* createChatCompletion invokes the adapter that is active when it is called.
C11_ActiveIsRegistered ==
  /\ [](/\ activeProvider \in DOMAIN providers
        /\ \A t, u \in DOMAIN providers : providers[t] = providers[u] => t = u
        /\ regError # "active_provider_not_found")
  /\ [][/\ regError' = "unknown_provider_type" => activeProvider' = activeProvider
        /\ activeProvider' # activeProvider =>
             /\ activeProvider' \in DOMAIN providers
             /\ regError' = "none"
        /\ got' # got => got' = providers[activeProvider]
        /\ (fcall.pc = "idle" /\ fcall'.pc = "awaitAdapter") =>
             fcall'.adapter = providers[activeProvider]]_vars

\* C11 witness: after the active type was changed, a setActiveProvider with
\* an unregistered type has thrown while a completion is served by the
\* adapter of the active type
C11_Witness ==
  /\ regError = "unknown_provider_type"
  /\ activeProvider # DefaultProvider
  /\ fcall.pc = "awaitAdapter"
  /\ fcall.adapter = providers[activeProvider]
  /\ got = providers[activeProvider]

\* whether initializeAll calls initialize for the entry
Initializable(entry) == entry.type \in DOMAIN providers /\ entry.enabled

\* the types of the entries of e, up to entry n, that are to be initialized
DueTypes(e, n) ==
  LET due == SelectSeq(SubSeq(e, 1, n), Initializable)
  IN [i \in 1..Len(due) |-> due[i].type]

\* C12: initializeAll never throws because of an adapter: whichever
\* adapters fail, initialize is called exactly once, in the order of the
\* configs, on every registered type whose config is enabled, on no other
\* type, and a failure does not stop the adapters after it.
C12_InitializeAllIsolatesFailures ==
  /\ initAll.pc \in {"idle", "awaitInitialize", "returned"}
  /\ initAll.pc = "returned" =>
       /\ initAll.calls = DueTypes(initAll.entries, Len(initAll.entries))
       /\ Len(initAll.outcomes) = Len(initAll.calls)
  /\ initAll.pc = "awaitInitialize" =>
       /\ initAll.calls = DueTypes(initAll.entries, initAll.index)
       /\ Initializable(initAll.entries[initAll.index])
       /\ Len(initAll.outcomes) = Len(initAll.calls) - 1
  /\ \A t \in configs : t \in DOMAIN providers

\* C12 witness: initializeAll has returned after the first adapter failed,
\* an unregistered type was skipped and a later adapter was initialized
C12_Witness ==
  /\ initAll.pc = "returned"
  /\ Len(initAll.entries) = 3
  /\ initAll.outcomes = <<"error", "ok">>
  /\ configs = {initAll.calls[2]}

\* ------------------------------------------------------------------------
\* Properties of selectBestAgent and registerSubAgent
\* ------------------------------------------------------------------------

\* the positions of the sub-agents with a capability whose lowercase form
\* is a substring of the lowercased description
Matching(m, description) ==
  {i \in DOMAIN m : \E j \in DOMAIN m[i].capabilities :
     Includes(ToLowerCase(description), ToLowerCase(m[i].capabilities[j]))}

C14_EverySubAgentHasItsTool ==
  /\ \A i \in DOMAIN subAgents :
       LET n == DelegationToolName(subAgents[i].name)
       IN /\ n \in DOMAIN delegationTools
          /\ delegationTools[n] = subAgents[i].id
  /\ \A c \in Callers : dcall[c].tool # << >> =>
       \A i \in DOMAIN subAgents :
         DelegationToolName(subAgents[i].name) = dcall[c].tool =>
           dcall[c].agentId = subAgents[i].id

\* ------------------------------------------------------------------------
\* Properties of task bookkeeping by the delegation tools and of getStats
\* ------------------------------------------------------------------------

\* C15: a task delegated through an explicit delegation tool of the Master
\* has the same bookkeeping as one delegated by delegateTask: in_progress
\* and in pendingTasks while the sub-orchestrator runs, then completed or
\* failed after its result and recorded in completedTasks.
C15_ExplicitToolsSameBookkeeping ==
  \A c \in Callers :
    (dcall[c].op \in {"delegate", "masterTool"} /\ dcall[c].taskId # 0) =>
      LET id == dcall[c].taskId
      IN /\ dcall[c].pc = "awaitExecute" =>
              /\ tasks[id].status = "in_progress"
              /\ id \in pendingTasks
         /\ dcall[c].pc = "returned" =>
              /\ tasks[id].status = StatusOf(dcall[c].ret)
              /\ id \notin pendingTasks
              /\ id \in DOMAIN completedTasks
              /\ completedTasks[id] = dcall[c].ret

\* C17: every getStats() call returns the size of pendingTasks, the numbers
\* of successful and of unsuccessful results in completedTasks as they are
\* at the call, their sum as totalTasks, and changes neither map.
C17_StatsReflectMaps ==
  [][stats' # stats =>
       /\ pendingTasks' = pendingTasks
       /\ completedTasks' = completedTasks
       /\ tasks' = tasks
       /\ stats'.pendingTasks = Cardinality(pendingTasks)
       /\ stats'.completedTasks =
            Cardinality({t \in TaskIds : t \in DOMAIN completedTasks
                                         /\ completedTasks[t].success})
       /\ stats'.failedTasks =
            Cardinality({t \in TaskIds : t \in DOMAIN completedTasks
                                         /\ ~completedTasks[t].success})
       /\ stats'.totalTasks =
            stats'.pendingTasks + stats'.completedTasks + stats'.failedTasks]_vars

\* C17 witness: getStats has counted a pending task, a successful and a
\* failed one, and a later delegateTask step has changed the maps
C17_Witness ==
  /\ stats.pendingTasks = 1
  /\ stats.completedTasks = 1
  /\ stats.failedTasks = 1
  /\ stats.totalTasks = 3
  /\ pendingTasks = {}

\* ------------------------------------------------------------------------
\* Properties of execute at the iteration cap (Spec)
\* ------------------------------------------------------------------------

\* C16: when the loop of a concrete orchestrator reaches its iteration cap
\* without a stop (every model call was answered by a tool-call request and
\* nothing was thrown by the backend or the parser), execute returns
\* success=true, no error, the sentinel as output, and the status is idle.
C16_ExhaustionIsSuccess ==
  \A c \in Runs :
    (/\ run[c].pc = "done"
     /\ run[c].responses = run[c].maxIterations
     /\ run[c].toolTurns = run[c].responses
     /\ run[c].error \notin {"backend", "parse"})
    => /\ run[c].result = [success |-> TRUE, output |-> Sentinel, error |-> "none"]
       /\ status = "idle"

\* C16 witness: execute has returned the sentinel after two tool-call turns
C16_Witness ==
  \E c \in Runs : /\ run[c].pc = "done"
                  /\ run[c].maxIterations = 2
                  /\ run[c].toolTurns = 2
                  /\ run[c].result.output = Sentinel
                  /\ status = "idle"

\* ------------------------------------------------------------------------
\* Properties of the recorded tool results (SpecTools)
\* ------------------------------------------------------------------------

\* C19: every ToolResult the loop records (synthesized by executeToolCall
\* for an unknown tool or a thrown exception, returned by a built-in tool or
\* by a delegation tool) has no data and an error when success is false,
\* and no error when success is true.
C19_ToolResultInvariant ==
  \A c \in Runs : \A i \in DOMAIN run[c].toolResults :
    LET r == run[c].toolResults[i].result
    IN /\ DOMAIN r = {"success", "data", "error"}
       /\ ~r.success => (r.data = "none" /\ r.error # "none")
       /\ r.success => r.error = "none"

\* C19 witness: one turn has recorded the result of a tool that threw and
\* the TaskResult of a successful delegation
C19_Witness ==
  \E c \in Runs : \E i, j \in DOMAIN run[c].toolResults :
    /\ run[c].toolResults[i].result.error = "thrown"
    /\ run[c].toolResults[j].result = [success |-> TRUE, data |-> "none", error |-> "none"]

\* ------------------------------------------------------------------------
\* Properties of the status getters and of independent instances
\* ------------------------------------------------------------------------

\* C18: getStatus() and getSystemStatus() leave the agents' state as it is
\* and return the state as it is at the call; assigning to a top-level
\* field of a returned snapshot changes no agent's state, so a later
\* getStatus() still returns what the agent holds.
C18_SnapshotsAreCopies ==
  [][snap' # snap =>
       /\ status' = status
       /\ currentTask' = currentTask
       /\ lastActivity' = lastActivity
       /\ other' = other
       /\ run' = run
       /\ snap'.fresh =>
            /\ snap'.master.status = status
            /\ snap'.master.currentTask = currentTask
            /\ snap'.master.lastActivity = lastActivity
            /\ snap'.kind = "system" => /\ snap'.sub.status = other.status
                                        /\ snap'.sub.currentTask = other.currentTask]_vars

\* C18 witness: both snapshots of a getSystemStatus() value were assigned
\* to while the orchestrator runs; the agents hold other values
C18_Witness ==
  /\ snap.kind = "system"
  /\ snap.master.status = "waiting"
  /\ snap.sub.status = "waiting"
  /\ snap.sub.currentTask = 99
  /\ status \in {"thinking", "executing"}
  /\ other.status = "idle"
  /\ other.currentTask = 0

\* C20: two independent instances that run execute concurrently share no
\* mutable state: a step of one changes neither the other's status, current
\* task, tool registry, provider type or frames, nor the orchestrator's task
\* maps, nor the registry's active type that selects the serving backend.
C20_NoSharedState ==
  [][/\ other' # other =>
          /\ UNCHANGED <<status, currentTask, lastActivity, tools, providerType, run>>
          /\ UNCHANGED <<pendingTasks, completedTasks, activeProvider>>
     /\ <<status, currentTask, lastActivity, tools, providerType, run>>'
          # <<status, currentTask, lastActivity, tools, providerType, run>> =>
          /\ other' = other
          /\ activeProvider' = activeProvider]_vars

\* C20 witness: the first instance is executing a tool call while the
\* model call of the second one is awaited at the registry
C20_Witness ==
  /\ run[1].pc = "tool"
  /\ status = "executing"
  /\ other.run.pc = "provider"
  /\ other.status = "thinking"
  /\ providerType # other.providerType

\* ------------------------------------------------------------------------
\* Properties of the statistical tool (SpecStatistics)
\* ------------------------------------------------------------------------

\* how often the number v occurs in the data, how many numbers are below
\* it, and the k-th smallest number of the data
Occurrences(data, v) ==
  Cardinality({i \in DOMAIN data : data[i] = [type |-> "number", value |-> v]})
NumbersBelow(data, v) ==
  Cardinality({i \in DOMAIN data : data[i].type = "number" /\ data[i].value < v})
KthSmallest(data, k) ==
  CHOOSE v \in DataNumbers :
    NumbersBelow(data, v) < k /\ k <= NumbersBelow(data, v) + Occurrences(data, v)

\* the sum of the numbers 1..v of the data, and the sum of the squares of
\* n * x - total over the same numbers x
RECURSIVE TotalUpTo(_, _)
TotalUpTo(data, v) ==
  IF v = 0 THEN 0 ELSE v * Occurrences(data, v) + TotalUpTo(data, v - 1)
RECURSIVE ScaledSquaresUpTo(_, _, _, _)
ScaledSquaresUpTo(data, v, n, total) ==
  IF v = 0 THEN 0
  ELSE Occurrences(data, v) * (v * n - total) * (v * n - total)
         + ScaledSquaresUpTo(data, v - 1, n, total)

OneToFive == [i \in 1..5 |-> [type |-> "number", value |-> i]]

\* C21: the statistical tool called with data [1,2,3,4,5] and operations
\* [mean, median, std] returns success with mean 3, median 3 and std the
\* square root of 2 (1.41 to two places); for every data array with a
\* number in it, mean = sum / n, median = the middle number of the sorted
\* data (the average of the two middle ones when n is even), variance = the
\* sum of the squared deviations from the mean divided by n, and std is the
\* square root of that variance, n being the count of the numbers.
C21_StatisticalTool ==
  stat.called =>
    LET data == stat.params.data
        ops == IF stat.params.hasOperations THEN stat.params.operations
               ELSE DefaultOperations
        asked(k) == \E i \in DOMAIN ops : ops[i] = k
        n == Cardinality({i \in DOMAIN data : data[i].type = "number"})
        total == TotalUpTo(data, 5)
        squares == ScaledSquaresUpTo(data, 5, n, total)
        r == stat.result
    IN /\ (data = OneToFive /\ ops = <<"mean", "median", "std">>) =>
            /\ r.success
            /\ r.data.mean = [num |-> 3, den |-> 1]
            /\ r.data.median = [num |-> 3, den |-> 1]
            /\ r.data.std = [num |-> 141, den |-> 100]
       /\ n > 0 =>
            /\ r.success
            /\ asked("mean") => r.data.mean.num * n = r.data.mean.den * total
            /\ asked("median") =>
                 IF n % 2 = 0
                 THEN r.data.median.num * 2 =
                        r.data.median.den * (KthSmallest(data, n \div 2)
                                             + KthSmallest(data, n \div 2 + 1))
                 ELSE r.data.median.num =
                        r.data.median.den * KthSmallest(data, (n + 1) \div 2)
            /\ (asked("variance") \/ asked("std")) =>
                 /\ r.data.variance.num * n * n * n = r.data.variance.den * squares
                 /\ r.data.std.den = 100
                 /\ r.data.std.num * r.data.std.num * n * n * n
                      <= squares * 100 * 100
                 /\ (r.data.std.num + 1) * (r.data.std.num + 1) * n * n * n
                      > squares * 100 * 100

\* C21 witness: the tool was called with [1,2,3,4,5] and [mean, median, std]
\* and has returned 1.41 as std
C21_Witness ==
  /\ stat.called
  /\ stat.params.data = OneToFive
  /\ stat.params.hasOperations
  /\ stat.params.operations = <<"mean", "median", "std">>
  /\ stat.result.success
  /\ stat.result.data.std.num = 141

\* ------------------------------------------------------------------------
\* Properties of POST /api/agents (SpecPost)
\* ------------------------------------------------------------------------

\* C22: a POST /api/agents request whose body carries the task description
\* in the field `message` (the documented required field; `context` is
\* optional) is executed through the master orchestrator and answered with
\* the execution result; it is not rejected as a bad request.
C22_MessageBodyIsExecuted ==
  (/\ post.pc = "responded"
   /\ post.body.kind = "json"
   /\ post.body.message = "text"
   /\ post.body.directTo = "absent")
  => /\ post.statusCode # 400
     /\ post.statusCode = 200 =>
          /\ post.via = "master"
          /\ post.payload \in {[success |-> r.success, output |-> r.output,
                                error |-> r.error] : r \in {TaskSucceeded, TaskFailed}}

\* ------------------------------------------------------------------------
\* Properties of the tool calls of a turn (Spec)
\* ------------------------------------------------------------------------

\* the step of run c in which the awaited model call resolves
ResponseStep(c) ==
  /\ run[c].pc \in {"provider", "default"}
  /\ run'[c].responses = run[c].responses + 1

\* the step of run c in which the awaited executeToolCall resolves
ToolStep(c) == run[c].pc = "tool" /\ run'[c] # run[c]

\* C23: a requested tool call whose serialized arguments cannot be parsed
\* is a tool-execution error, not a fatal loop error: runAgentLoop does not
\* throw because of it, a ToolResult with success=false is recorded for that
\* call, tagged with its call id, the other calls of the turn are executed
\* and the loop goes on.
C23_ParseFailureIsToolError ==
  /\ [](\A c \in Runs : run[c].error # "parse")
  /\ [][\A c \in Runs :
          /\ ResponseStep(c) => run'[c].pc \in {"tool", "loopReturned"}
          /\ ToolStep(c) =>
               LET i == run[c].tcIndex
                   call == run[c].response.toolCalls[i]
                   rec == run'[c].toolResults[i]
               IN /\ Len(run'[c].toolResults) = i
                  /\ rec.toolCallId = CallId(run[c].iterations, i)
                  /\ ~call.argsOk => ~rec.result.success
                  /\ run'[c].pc # "loopThrown"]_vars

\* the step of run c that completes a call whose tool threw
ThrowingToolStep(c) ==
  /\ ToolStep(c)
  /\ \/ run'[c].error = "tool"
     \/ /\ Len(run'[c].toolResults) = run[c].tcIndex
        /\ run'[c].toolResults[run[c].tcIndex].threw

\* what follows every completed call: the next call of the turn in the
\* order of the response, or the end of the turn
NextCallOrEndOfTurn(c) ==
  LET f == run[c]
      g == run'[c]
  IN /\ g.pc # "loopThrown"
     /\ g.error = "none"
     /\ Len(g.toolResults) = f.tcIndex
     /\ g.toolResults[f.tcIndex].toolCallId = CallId(f.iterations, f.tcIndex)
     /\ f.tcIndex < Len(f.response.toolCalls) =>
          /\ g.pc = "tool"
          /\ g.tcIndex = f.tcIndex + 1
          /\ g.response = f.response

\* C24 as stated: an error thrown inside a tool's body is caught and
\* converted to a ToolResult with success=false carrying the error message;
\* it never escapes runAgentLoop, the remaining calls of the turn are
\* executed in order and the loop continues with the next model call.
C24_ToolThrowNextModelCall ==
  [][\A c \in Runs : ThrowingToolStep(c) =>
        /\ NextCallOrEndOfTurn(c)
        /\ ~run'[c].toolResults[run[c].tcIndex].result.success
        /\ run'[c].toolResults[run[c].tcIndex].result.error = "thrown"
        /\ LastCallOfTurn(c) =>
             /\ run'[c].modelCalls = run[c].modelCalls + 1
             /\ run'[c].pc \in {"provider", "default"}]_vars

\* C24 amended: as above, but after the last call of the turn the next
\* model call is made only if fewer than maxIterations turns were made; at
\* the cap the loop returns the sentinel instead.
C24_ToolThrowIsCaught ==
  [][\A c \in Runs : ThrowingToolStep(c) =>
        /\ NextCallOrEndOfTurn(c)
        /\ ~run'[c].toolResults[run[c].tcIndex].result.success
        /\ run'[c].toolResults[run[c].tcIndex].result.error = "thrown"
        /\ LastCallOfTurn(c) =>
             IF run[c].iterations < run[c].maxIterations
             THEN /\ run'[c].modelCalls = run[c].modelCalls + 1
                  /\ run'[c].pc \in {"provider", "default"}
             ELSE /\ run'[c].modelCalls = run[c].modelCalls
                  /\ run'[c].pc = "loopReturned"
                  /\ run'[c].loopResult = Sentinel]_vars

\* C24 witness: the first tool of a turn threw, the second call of the turn
\* was executed after it and the next model call is awaited
C24_Witness ==
  \E c \in Runs :
    /\ run[c].pc \in {"provider", "default"}
    /\ Len(run[c].toolResults) = 2
    /\ run[c].toolResults[1].threw
    /\ run[c].toolResults[1].result = CaughtToolResult
    /\ run[c].toolResults[2].result.success

\* C25: a turn of runAgentLoop ends the loop successfully, returning the
\* assistant's text of that turn, if and only if the response's finish
\* reason is stop or its tool-call list is absent or empty; tools are
\* executed in a turn only when the finish reason is not stop and the list
\* is not empty, so the tool calls of a stop response are never executed.
C25_StopOrNoToolCallsEndsLoop ==
  [][\A c \in Runs : ResponseStep(c) =>
        \A resp \in Responses : run'[c] = AfterResponse(run[c], resp) =>
          LET ends == resp.finishReason = "stop" \/ Len(resp.toolCalls) = 0
          IN /\ ends <=> /\ run'[c].pc = "loopReturned"
                         /\ run'[c].loopResult = "content"
                         /\ status' = "idle"
             /\ run'[c].pc = "tool" => /\ ~ends
                                       /\ run'[c].response = resp
                                       /\ run'[c].tcIndex = 1
             /\ ends => run'[c].toolResults = << >>]_vars

\* the last k elements of the sequence s
LastK(s, k) == SubSeq(s, Len(s) - k + 1, Len(s))

\* C26: the tool calls of one model turn are executed one at a time in the
\* order of the response (a call starts only after the result of the
\* previous one is there), and the tool-result messages appended to the
\* conversation are in that order, each tagged with the id of its call.
C26_ToolCallsInOrder ==
  /\ [](\A c \in Runs : run[c].pc = "tool" =>
          /\ run[c].tcIndex \in 1..Len(run[c].response.toolCalls)
          /\ Len(run[c].toolResults) = run[c].tcIndex - 1)
  /\ [][\A c \in Runs : ToolStep(c) =>
          LET f == run[c]
              g == run'[c]
              i == f.tcIndex
              k == Len(f.response.toolCalls)
          IN /\ g.toolResults = Append(f.toolResults, g.toolResults[i])
             /\ g.toolResults[i].toolCallId = CallId(f.iterations, i)
             /\ (f.response.toolCalls[i].name \notin tools)
                  <=> (g.toolResults[i].result.error = "unknown_tool")
             /\ i < k => /\ g.pc = "tool"
                         /\ g.tcIndex = i + 1
                         /\ g.response = f.response
             /\ i = k => /\ g.pc # "tool"
                         /\ Len(g.messages) >= Len(f.messages) + k
                         /\ LastK(g.messages, k) =
                              [j \in 1..k |-> Msg("tool", CallId(f.iterations, j), << >>)]
                         /\ \A j \in 1..Len(f.messages) :
                              g.messages[j] = f.messages[j]]_vars

\* C26 witness: a turn of two calls has ended, the unknown-tool result of
\* its first call before the result of its second call
C26_Witness ==
  \E c \in Runs :
    /\ run[c].pc \in {"provider", "default"}
    /\ Len(run[c].toolResults) = 2
    /\ run[c].toolResults[1].result.error = "unknown_tool"
    /\ run[c].toolResults[2].result.error # "unknown_tool"
    /\ LastK(run[c].messages, 2) =
         << Msg("tool", run[c].toolResults[1].toolCallId, << >>),
            Msg("tool", run[c].toolResults[2].toolCallId, << >>) >>
    /\ run[c].toolResults[1].toolCallId # run[c].toolResults[2].toolCallId

\* C27: after a turn in which the model requested k >= 1 tool calls the
\* message list sent on the next model call is the previous list extended
\* by exactly one assistant message, carrying the k tool-call requests, and
\* then exactly k tool-result messages; the assistant message of a turn is
\* recorded once whatever k is.
C27_OneAssistantMessagePerTurn ==
  [][\A c \in Runs :
       (ToolStep(c) /\ LastCallOfTurn(c) /\ run'[c].pc \in {"provider", "default"}) =>
         LET f == run[c]
             g == run'[c]
             k == Len(f.response.toolCalls)
             ids == [j \in 1..k |-> CallId(f.iterations, j)]
             previous == Len(f.attempts[1].messages)
             sent == g.attempts[Len(g.attempts)].messages
         IN /\ Len(g.messages) = previous + 1 + k
            /\ Len(sent) = Len(g.messages)
            /\ SubSeq(g.messages, 1, previous) = SubSeq(f.messages, 1, previous)
            /\ g.messages[previous + 1] = Msg("assistant", 0, ids)
            /\ \A j \in 1..k : g.messages[previous + 1 + j] = Msg("tool", ids[j], << >>)]_vars

\* C28: every tool result is delivered to the backend on the next model
\* call as a message with role tool carrying the toolCallId of its call; no
\* message with a toolCallId reaches a backend under any other role.
C28_ToolRoleOnTheWire ==
  \A c \in Runs : run[c].pc \in {"provider", "default"} =>
    \A a \in DOMAIN run[c].attempts :
      LET sent == run[c].attempts[a].messages
      IN /\ Len(sent) = Len(run[c].messages)
         /\ \A j \in DOMAIN sent :
              /\ sent[j].toolCallId = run[c].messages[j].toolCallId
              /\ sent[j].toolCallId # 0 => sent[j].role = "tool"
              /\ run[c].messages[j].role = "tool" =>
                   /\ sent[j].role = "tool"
                   /\ sent[j].toolCallId # 0

\* ------------------------------------------------------------------------
\* Properties of the agent's state at the end of the loop (Spec)
\* ------------------------------------------------------------------------

\* C29: whenever runAgentLoop (maxIterations >= 1) returns, on success or
\* on iteration exhaustion, the agent's status is idle and its lastActivity
\* has been updated by that run.
C29_IdleAndStampedOnReturn ==
  \A c \in Runs : (run[c].pc = "loopReturned" /\ run[c].maxIterations >= 1) =>
    /\ run[c].loopResult \in {"content", Sentinel}
    /\ status = "idle"
    /\ lastActivity > run[c].activityAtStart

\* the step of run c in which an awaited model call rejects and nothing in
\* callLLM catches the error
ModelInvocationThrows(c) ==
  /\ run[c].pc \in {"provider", "default"}
  /\ run'[c].error = "backend"

\* C30: an exception raised during model invocation inside the loop is
\* caught by the caller execute, which sets the status to error and
\* returns a failure; execute does not throw, and once it has returned the
\* status is neither thinking nor executing.
C30_ModelErrorCaughtByExecute ==
  /\ [](\A c \in Runs :
          /\ run[c].pc # "executeThrown"
          /\ (run[c].pc = "done" /\ run[c].error = "backend") =>
               /\ status = "error"
               /\ run[c].result.success = FALSE
               /\ run[c].result.error = "backend")
  /\ [][\A c \in Runs :
          /\ ModelInvocationThrows(c) => /\ run[c].pc = "default"
                                         /\ run'[c].pc = "loopThrown"
          /\ (run[c].pc = "loopThrown" /\ run'[c] # run[c]) =>
               /\ run'[c].pc = "done"
               /\ status' \notin {"thinking", "executing"}
          /\ (run[c].pc = "loopThrown" /\ run'[c] = run[c]) => status' = status]_vars

\* C30 witness: the provider and the default backend have both failed on
\* the second turn, after a tool call, and execute has returned
C30_Witness ==
  \E c \in Runs :
    /\ run[c].pc = "done"
    /\ run[c].error = "backend"
    /\ run[c].iterations = 2
    /\ Len(run[c].attempts) = 2
    /\ status = "error"

\* ------------------------------------------------------------------------
\* Properties of the result of a delegated task
\* ------------------------------------------------------------------------

\* C31: when a delegation has returned (by delegateTask or by a Master's
\* delegate_to_* tool), its task is completed if the returned result is a
\* success and failed otherwise, task.result is the result returned to the
\* caller and recorded in completedTasks, and the task was stamped exactly
\* once, at that change; no returned execution leaves its task without a
\* result or in a non-terminal status.
C31_ResultPopulatedOnTerminalTransition ==
  \A c \in Callers :
    (/\ dcall[c].op \in {"delegate", "masterTool"}
     /\ dcall[c].taskId # 0
     /\ dcall[c].pc = "returned") =>
      LET id == dcall[c].taskId
      IN /\ tasks[id].status = StatusOf(dcall[c].ret)
         /\ tasks[id].status \in {"completed", "failed"}
         /\ tasks[id].result = dcall[c].ret
         /\ tasks[id].stamps = 1
         /\ id \in DOMAIN completedTasks
         /\ completedTasks[id] = dcall[c].ret

\* ------------------------------------------------------------------------
\* Properties of the iteration caps (SpecCaps)
\* ------------------------------------------------------------------------

\* C32: one runAgentLoop invocation never makes more model calls than
\* maxIterations (a fallback retry belongs to the model call it retries), so
\* one execute call makes at most 20 model calls on the Master, at most 15
\* on the Analytics and Research orchestrators and at most 10 on the
\* Content orchestrator.
C32_ModelCallsWithinCap ==
  /\ other.run.modelCalls <= other.run.maxIterations
  /\ other.run.modelCalls = other.run.iterations
  /\ Len(other.run.attempts) <= 2
  /\ other.run.responses <= other.run.modelCalls
  /\ (other.class = "MasterOrchestrator") => other.run.modelCalls <= 20
  /\ (other.class \in {"AnalyticsOrchestrator", "ResearchOrchestrator"}) =>
        other.run.modelCalls <= 15
  /\ (other.class = "ContentOrchestrator") => other.run.modelCalls <= 10

\* an execute call on the Content orchestrator has made its tenth model
\* call, ten turns with a tool call each, and ends on the sentinel
C32_Witness ==
  /\ other.class = "ContentOrchestrator"
  /\ other.run.modelCalls = 10
  /\ other.run.pc = "loopReturned"
  /\ other.run.loopResult = Sentinel
  /\ other.run.toolTurns = 10

\* ------------------------------------------------------------------------
\* Properties of testProvider / listModels (SpecLazy)
\* ------------------------------------------------------------------------

\* C33: testProvider(type) and listModels(type) initialize lazily: an
\* adapter that is not ready and has a stored config is initialized once
\* before the call is delegated to it, an adapter that is ready is not
\* initialized again, testProvider on a not-ready adapter without a stored
\* config returns {success: false} without contacting it, and the adapter
\* is never asked to test a connection or to list models while not ready.
C33_LazyInitializeBeforeDelegating ==
  (lcall.op \in {"testProvider", "listModels"} /\ lcall.type \in AdapterTypes) =>
    /\ lcall.readyAtEntry => lcall.initializeCalls = 0
    /\ (~lcall.readyAtEntry /\ lcall.configAtEntry /\ lcall.pc # "idle") =>
          lcall.initializeCalls = 1
    /\ (lcall.op = "testProvider" /\ ~lcall.readyAtEntry /\ ~lcall.configAtEntry) =>
          /\ lcall.pc = "returned"
          /\ lcall.result = "not_initialized"
          /\ ~lcall.delegated
    /\ lcall.delegated => lcall.readyAtDelegate

\* ------------------------------------------------------------------------
\* Properties of the agent status under serial and overlapping execute calls
\* ------------------------------------------------------------------------

InFlight(c) == run[c].pc \notin {"idle", "done"}

\* C35: overlapping execute calls on one instance are not synchronized:
\* while a call is in flight, another call on the same instance is accepted
\* at once and overwrites status and currentTask, so that an interleaving
\* exists in which the status reads idle and currentTask names the other
\* task while a call is still in flight.
C35_OverlappingExecuteUnsynchronized ==
  \A c \in TwoRuns, d \in TwoRuns :
    (c # d /\ c \in runners /\ run[c].pc = "idle" /\ InFlight(d)) =>
      ENABLED (/\ ConcurrentExecuteStart(c, 1)
               /\ currentTask' = c
               /\ status' = "thinking"
               /\ run'[d] = run[d])

\* the first call still awaits its model call while the second call, made
\* after it, has returned: the status reads idle and currentTask names the
\* second task
C35_Witness ==
  /\ run[1].pc = "default"
  /\ run[2].pc = "done"
  /\ run[2].result.success
  /\ status = "idle"
  /\ currentTask = 2

\* ------------------------------------------------------------------------
\* Properties of the task maps under overlapping delegateTask calls
\* ------------------------------------------------------------------------

\* the tasks that delegateTask calls have created so far
DelegatedTasks == {t \in TaskIds : tasks[t].creator = "delegate"}

\* the delegateTask call c takes a step
CallSteps(c) == dcall'[c] # dcall[c]

\* C36: in every interleaving of overlapping delegateTask calls each task
\* created is in exactly one of pendingTasks / completedTasks, a step of a
\* call changes the place of that call's own task only, and when no call is
\* awaiting its sub-agent pendingTasks is empty and completedTasks holds
\* exactly one entry per call that found its sub-agent.
C36_BookkeepingUnderConcurrency ==
  /\ [](/\ \A t \in DelegatedTasks :
             (t \in pendingTasks) # (t \in DOMAIN completedTasks)
        /\ (pendingTasks \cup DOMAIN completedTasks) \subseteq DelegatedTasks
        /\ (\A c \in Callers : dcall[c].pc # "awaitExecute" \/ ~DelegateCall(c)) =>
              /\ pendingTasks = {}
              /\ DOMAIN completedTasks = DelegatedTasks)
  /\ [][\A t \in TaskIds :
          (\/ (t \in pendingTasks) # (t \in pendingTasks')
           \/ (t \in DOMAIN completedTasks) # (t \in DOMAIN completedTasks')
           \/ (t \in DOMAIN completedTasks /\ completedTasks'[t] # completedTasks[t])) =>
             \E c \in Callers :
               /\ CallSteps(c)
               /\ dcall'[c].op = "delegate"
               /\ dcall'[c].taskId = t
               /\ \A d \in Callers \ {c} : ~CallSteps(d)]_vars

\* two delegateTask calls overlap, the second one returns first, and a
\* third task has been completed before
C36_Witness ==
  /\ dcall[1].pc = "awaitExecute" /\ DelegateCall(1)
  /\ dcall[2].pc = "returned" /\ DelegateCall(2)
  /\ dcall[1].taskId < dcall[2].taskId
  /\ Cardinality(DOMAIN completedTasks) = 2
  /\ pendingTasks = {dcall[1].taskId}

\* C39: completedTasks only grows: no step removes or replaces one of its
\* entries, a task id that has entered it never enters pendingTasks again,
\* and the totalTasks that getStats() reports never decreases.
C39_CompletedTasksOnlyGrows ==
  /\ [](DOMAIN completedTasks \cap pendingTasks = {})
  /\ [][/\ \A t \in DOMAIN completedTasks :
              /\ t \in DOMAIN completedTasks'
              /\ completedTasks'[t] = completedTasks[t]
              /\ t \notin pendingTasks'
        /\ GetStats(pendingTasks', completedTasks').totalTasks >=
             GetStats(pendingTasks, completedTasks).totalTasks]_vars

\* a second result has been recorded next to the first one, of another
\* outcome, and getStats() has counted both
C39_Witness ==
  /\ Cardinality(DOMAIN completedTasks) = 2
  /\ \E t, u \in DOMAIN completedTasks : completedTasks[t].success /\ ~completedTasks[u].success
  /\ stats.totalTasks = 3
  /\ Cardinality(pendingTasks) = 1

\* ------------------------------------------------------------------------
\* Properties of the end of the loop by iteration exhaustion
\* ------------------------------------------------------------------------

\* the loop of the frame c has ended because the iterations ran out
Exhausted(c) ==
  /\ run[c].pc \in {"loopReturned", "done"}
  /\ run[c].loopResult = Sentinel

\* the ids of the tool calls that the last response with tool calls asked
\* for: those carried by the last assistant message of allMessages
FinalTurnCalls(c) ==
  LET all == run[c].allMessages
      last == CHOOSE i \in 1..Len(all) :
                /\ all[i].role = "assistant"
                /\ \A j \in (i + 1)..Len(all) : all[j].role # "assistant"
  IN all[last].toolCalls

\* C37: when the loop ends by iteration exhaustion (with at least one
\* turn), every tool call requested in the final turn has been executed, in
\* the order requested; no model call follows, so no request carries their
\* results, and the returned result is the sentinel alone.
C37_FinalTurnToolsRunAtExhaustion ==
  \A c \in Runs :
    (Exhausted(c) /\ run[c].maxIterations >= 1) =>
      LET f == run[c]
          ids == FinalTurnCalls(c)
      IN /\ Len(ids) >= 1
         /\ Len(f.toolResults) = Len(ids)
         /\ \A j \in 1..Len(ids) : f.toolResults[j].toolCallId = ids[j]
         /\ f.modelCalls = f.maxIterations
         /\ f.responses = f.modelCalls
         /\ \A a \in 1..Len(f.attempts) :
               \A m \in 1..Len(f.attempts[a].messages), j \in 1..Len(ids) :
                 f.attempts[a].messages[m].toolCallId # ids[j]
         /\ \E m \in 1..Len(f.messages) :
               f.messages[m].role = "tool" /\ f.messages[m].toolCallId = ids[Len(ids)]
         /\ f.pc = "done" =>
               f.result = [success |-> TRUE, output |-> Sentinel, error |-> "none"]

\* execute has returned the sentinel after a second turn with two tool
\* calls, one of a registered tool that threw and one of an unknown tool
C37_Witness ==
  /\ run[1].pc = "done"
  /\ run[1].result.output = Sentinel
  /\ run[1].maxIterations = 2
  /\ Len(run[1].toolResults) = 2
  /\ run[1].toolResults[1].threw
  /\ run[1].toolResults[2].result.error = "unknown_tool"

\* C38: runAgentLoop called with maxIterations <= 0 makes no model call and
\* executes no tool; it does not reject the argument but returns the
\* iteration-exhaustion sentinel with an empty message list and sets the
\* status to idle.
C38_NonPositiveCapReturnsSentinel ==
  \A c \in Runs :
    (run[c].pc # "idle" /\ run[c].maxIterations <= 0) =>
      /\ run[c].pc \in {"loopReturned", "done"}
      /\ run[c].modelCalls = 0
      /\ run[c].attempts = << >>
      /\ run[c].toolResults = << >>
      /\ run[c].allMessages = << >>
      /\ run[c].loopResult = Sentinel
      /\ run[c].error = "none"
      /\ run[c].pc = "loopReturned" => status = "idle"
      /\ run[c].pc = "done" =>
            run[c].result = [success |-> TRUE, output |-> Sentinel, error |-> "none"]

\* a call with a negative cap has returned from the loop on an instance that
\* a previous call had left in the error state
C38_Witness ==
  /\ run[1].pc = "done"
  /\ ~run[1].result.success
  /\ run[2].pc = "loopReturned"
  /\ run[2].maxIterations = -1
  /\ run[2].iterations = 0
  /\ status = "idle"

\* ------------------------------------------------------------------------
\* Properties of getAgentSystem() (SpecSystem)
\* ------------------------------------------------------------------------

\* C40: getAgentSystem() creates the agent system at most once: in every
\* interleaving of concurrent requests at most one createAgentSystem() call
\* is made that does not fail, and all requests receive the same instance.
C40_AgentSystemCreatedOnce ==
  /\ Cardinality({r \in Requests : sys.req[r].creating # 0
                                   /\ sys.req[r].pc # "failed"}) <= 1
  /\ \A r, q \in Requests :
        (sys.req[r].pc = "has" /\ sys.req[q].pc = "has") =>
           sys.req[r].system = sys.req[q].system

============================================================================
